---- MODULE Spec2Model ----
(***************************************************************************)
(* A model of the distributed task scheduler (distributed/scheduler.py):   *)
(* the task, worker and client tables, the stimulus handlers and the       *)
(* transition engine that moves tasks between states.                      *)
(*                                                                         *)
(* Every handler is an operator from scheduler state to scheduler state;   *)
(* an action of the model is one stimulus: the handler together with the   *)
(* closure of the transitions it recommends.  A Python exception raised    *)
(* inside a handler leaves the state as mutated so far; the field exc      *)
(* records it and every later step of that handler is skipped.             *)
(***************************************************************************)
EXTENDS Integers, Sequences, FiniteSets, TLC

None == "none"

\* The universe of the model: task keys, worker addresses, client ids.
Keys == {"x", "y"}
Workers == {"w1", "w2"}
Clients == {"c1", "c2"}

\* The graph clients submit: y is computed from x.
GraphDeps(k) == IF k = "y" THEN {"x"} ELSE {}

\* Host part of a worker address, and the cores a worker registers with.
HostOf(w) == IF w = "w1" THEN "h1" ELSE "h2"
NcoresOf(w) == IF w = "w1" THEN 1 ELSE 2

MaxNbytes == 2
MaxResource == 1
MaxDuration == 2
MaxRetries == 1
DefaultDataSize == 1
DefaultDuration == 1
AllowedFailures == 1

(***************************************************************************)
(* Entities                                                                *)
(***************************************************************************)

\* TaskState(key, run_spec) followed by ts.state = 'released'.
NewTask(run_spec) ==
    [state |-> "released", run_spec |-> run_spec,
     dependencies |-> {}, dependents |-> {},
     waiting_on |-> {}, waiters |-> {},
     who_has |-> {}, processing_on |-> None, who_wants |-> {},
     nbytes |-> -1, retries |-> 0, suspicious |-> 0,
     exception_blame |-> None, has_lost_dependencies |-> FALSE,
     worker_restrictions |-> {}, host_restrictions |-> {},
     resource_restrictions |-> 0, loose_restrictions |-> FALSE]

\* A key that is not in the task table.
NoTask == [NewTask(FALSE) EXCEPT !.state = "forgotten"]

\* WorkerState(address, ncores); live says that it is in Scheduler.workers.
NewWorker(ncores) ==
    [ncores |-> ncores, processing |-> <<>>, has_what |-> {}, nbytes |-> 0,
     resources |-> -1, used_resources |-> 0, occupancy |-> 0, live |-> TRUE]

\* The addresses in Scheduler.workers.  The model keeps the WorkerState of a
\* removed worker for as long as a task still refers to it.
Live(s) == {w \in DOMAIN s.workers : s.workers[w].live}

\* The changes of state of this stimulus, with the change of task k to state
\* new: what the transition log records, and the states assigned outside of it.
Note(s, k, new) ==
    IF s.tasks[k].state = new THEN s.changes
    ELSE s.changes \cup {<<s.tasks[k].state, new>>}

\* Functions with a varying domain (Python dicts).
Put(f, k, v) == [a \in (DOMAIN f) \cup {k} |-> IF a = k THEN v ELSE f[a]]
Del(f, k) == [a \in (DOMAIN f) \ {k} |-> f[a]]
EmptyMap == <<>>

RECURSIVE SumOver(_, _)
SumOver(f, S) ==
    IF S = {} THEN 0
    ELSE LET a == CHOOSE a \in S : TRUE IN f[a] + SumOver(f, S \ {a})

\* sum(d.values())
SumValues(f) == SumOver(f, DOMAIN f)

\* A set as a sequence in a fixed order (sorted by name).
RECURSIVE SortedSeq(_, _)
SortedSeq(S, order) ==
    IF order = <<>> THEN <<>>
    ELSE IF order[1] \in S
         THEN <<order[1]>> \o SortedSeq(S, Tail(order))
         ELSE SortedSeq(S, Tail(order))

KeySeq(S) == SortedSeq(S, <<"x", "y">>)
WorkerSeq(S) == SortedSeq(S, <<"w1", "w2">>)
ClientSeq(S) == SortedSeq(S, <<"c1", "c1-replaced", "c2", "c2-replaced", "fire-and-forget">>)

InTable(s, k) == s.tasks[k].state # "forgotten"

Raise(s) == [s EXCEPT !.exc = TRUE]

\* A loop over a sequence.
RECURSIVE Fold(_, _, _)
Fold(Op(_, _), acc, seq) ==
    IF seq = <<>> THEN acc ELSE Fold(Op, Op(acc, seq[1]), Tail(seq))

\* A local name for a value.
With(x, Op(_)) == Op(x)

\* The rest of a handler, which an exception skips.
Bind(s, Op(_)) == IF s.exc THEN s ELSE Op(s)

\* TaskState.get_nbytes
get_nbytes(ts) == IF ts.nbytes = -1 THEN DefaultDataSize ELSE ts.nbytes

\* TaskState.set_nbytes: the holders' byte counts follow the task's size.
set_nbytes(s, k, nbytes) ==
    LET ts == s.tasks[k]
        diff == nbytes - (IF ts.nbytes = -1 THEN 0 ELSE ts.nbytes)
    IN [s EXCEPT !.tasks[k].nbytes = nbytes,
                 !.workers = [w \in DOMAIN s.workers |->
                                 IF w \in ts.who_has
                                 THEN [s.workers[w] EXCEPT !.nbytes = @ + diff]
                                 ELSE s.workers[w]]]

(***************************************************************************)
(* Placement                                                               *)
(***************************************************************************)

\* Scheduler.check_idle_saturated (the idle set; occ defaults to ws.occupancy)
check_idle_saturated(s, w) ==
    IF s.total_ncores = 0 THEN s
    ELSE LET ws == s.workers[w]
             nc == ws.ncores
             p == Cardinality(DOMAIN ws.processing)
         IN IF p < nc \/ 2 * ws.occupancy * s.total_ncores < s.total_occupancy * nc
            THEN [s EXCEPT !.idle = @ \cup {w}]
            ELSE [s EXCEPT !.idle = @ \ {w}]

\* The result of valid_workers: all = TRUE stands for Python's True.
AllValid == [all |-> TRUE, set |-> {}, exc |-> FALSE]
SomeValid(S) == [all |-> FALSE, set |-> S, exc |-> FALSE]

\* Scheduler.valid_workers
valid_workers(s, ts) ==
    LET hosts == {h \in ts.host_restrictions : h \in DOMAIN s.host_info}
        ss == UNION {s.host_info[h].addresses : h \in hosts}
        ww == {w \in DOMAIN s.resources : s.resources[w] >= ts.resource_restrictions}
    IN IF ts.host_restrictions # {} /\ \E h \in hosts : ~s.host_info[h].has_addresses
       THEN [AllValid EXCEPT !.exc = TRUE]
       ELSE With(With(With(IF ts.worker_restrictions # {}
                           THEN SomeValid({w \in ts.worker_restrictions :
                                              w \in DOMAIN s.worker_info})
                           ELSE AllValid,
                           LAMBDA s1 :
                               IF ts.host_restrictions = {} THEN s1
                               ELSE IF s1.all THEN SomeValid(ss)
                               ELSE SomeValid(s1.set \cup ss)),
                      LAMBDA s2 :
                          IF ts.resource_restrictions = 0 THEN s2
                          ELSE IF s2.all THEN SomeValid(ww)
                          ELSE SomeValid(s2.set \cap ww)),
                 LAMBDA s3 :
                     IF ~s3.all /\ ~(s3.set \subseteq Live(s))
                     THEN [s3 EXCEPT !.exc = TRUE]
                     ELSE s3)

\* Scheduler.worker_objective: (start_time, ws.nbytes), start_time kept as the
\* fraction num/den with BANDWIDTH one byte unit per time unit.
worker_objective(s, ts, w) ==
    LET ws == s.workers[w]
        comm_bytes == SumOver([d \in Keys |-> get_nbytes(s.tasks[d])],
                              {d \in ts.dependencies : w \notin s.tasks[d].who_has})
    IN [num |-> comm_bytes * ws.ncores + ws.occupancy, den |-> ws.ncores,
        nbytes |-> ws.nbytes]

ObjectiveLess(a, b) ==
    \/ a.num * b.den < b.num * a.den
    \/ a.num * b.den = b.num * a.den /\ a.nbytes < b.nbytes

\* min(candidates, key=...): the first minimal element in iteration order.
RECURSIVE MinBy(_, _, _)
MinBy(order, key, best) ==
    IF order = <<>> THEN best
    ELSE IF best = None \/ ObjectiveLess(key[order[1]], key[best])
         THEN MinBy(Tail(order), key, order[1])
         ELSE MinBy(Tail(order), key, best)

RECURSIVE decide_worker(_, _, _, _)
\* decide_worker(ts, all_workers, valid_workers, objective), module level
decide_worker(s, ts, all_workers, valid) ==
    LET holders == UNION {s.tasks[d].who_has : d \in ts.dependencies}
        cand0 == IF valid.all
                 THEN IF holders = {} THEN all_workers ELSE holders
                 ELSE IF valid.set \cap holders # {} THEN valid.set \cap holders
                      ELSE valid.set
        key == [w \in cand0 |-> worker_objective(s, ts, w)]
    IN IF ~valid.all /\ cand0 = {}
       THEN IF ts.loose_restrictions
            THEN decide_worker(s, ts, all_workers, AllValid)
            ELSE None
       ELSE IF cand0 = {} THEN None
       ELSE IF Cardinality(cand0) = 1 THEN CHOOSE w \in cand0 : TRUE
       ELSE MinBy(SortedSeq(cand0, s.tie), key, None)

OccupancyKey(s, S) ==
    [w \in S |-> [num |-> s.workers[w].occupancy, den |-> 1, nbytes |-> 0]]

\* Scheduler.decide_worker without the restrictions: every worker is valid.
Scheduler_decide_worker_ignores_valid(s, k) ==
    [s |-> s, worker |-> decide_worker(s, s.tasks[k], Live(s), AllValid)]

\* Scheduler.decide_worker: the worker for ts, or None with ts put in no-worker.
\* The result is the state and the chosen worker.
Scheduler_decide_worker(s, k) ==
    LET ts == s.tasks[k]
    IN With(valid_workers(s, ts),
            LAMBDA valid :
                IF valid.exc THEN [s |-> Raise(s), worker |-> None]
                ELSE IF ~valid.all /\ valid.set = {} /\ ~ts.loose_restrictions
                        /\ Live(s) # {}
                THEN [s |-> [s EXCEPT !.unrunnable = @ \cup {k},
                                      !.tasks[k].state = "no-worker", !.changes = Note(s, k, "no-worker")],
                      worker |-> None]
                ELSE IF ts.dependencies # {} \/ ~valid.all
                THEN [s |-> s, worker |-> decide_worker(s, ts, Live(s), valid)]
                ELSE IF s.idle \cup Live(s) = {}
                THEN [s |-> Raise(s), worker |-> None]
                ELSE With(IF s.idle # {} THEN s.idle ELSE Live(s),
                          LAMBDA pool :
                              [s |-> s,
                               worker |-> MinBy(WorkerSeq(pool), OccupancyKey(s, pool),
                                                None)]))

\* Scheduler.consume_resources
consume_resources(s, k, w) ==
    LET q == s.tasks[k].resource_restrictions
    IN IF q = 0 THEN s
       ELSE IF s.workers[w].resources = -1 THEN Raise(s)
       ELSE [s EXCEPT !.workers[w].used_resources = @ + q]

\* Scheduler.release_resources
release_resources(s, k, w) ==
    LET q == s.tasks[k].resource_restrictions
    IN IF q = 0 THEN s
       ELSE IF s.workers[w].resources = -1 THEN Raise(s)
       ELSE [s EXCEPT !.workers[w].used_resources = @ - q]

\* get_task_duration: the prefix's mean duration, or the default while unknown
\* (the task is then remembered in unknown_durations).
get_task_duration(s) ==
    IF s.task_duration = -1 THEN DefaultDuration ELSE s.task_duration

note_unknown_duration(s, k) ==
    IF s.task_duration = -1 THEN [s EXCEPT !.unknown_durations = @ \cup {k}] ELSE s

\* get_comm_cost: bytes of the dependencies the worker does not hold, over BANDWIDTH
get_comm_cost(s, k, w) ==
    SumOver([d \in Keys |-> get_nbytes(s.tasks[d])],
            {d \in s.tasks[k].dependencies : d \notin s.workers[w].has_what})

(***************************************************************************)
(* Transition engine                                                       *)
(***************************************************************************)

\* Recommendations: an ordered dict {key: finish} as a sequence of pairs.
RecHas(r, k) == \E i \in 1..Len(r) : r[i][1] = k
RecGet(r, k) == r[CHOOSE i \in 1..Len(r) : r[i][1] = k][2]
RecSet(r, k, f) ==
    IF RecHas(r, k)
    THEN [i \in 1..Len(r) |-> IF r[i][1] = k THEN <<k, f>> ELSE r[i]]
    ELSE Append(r, <<k, f>>)
RecUpdate(r, new) == Fold(LAMBDA acc, e : RecSet(acc, e[1], e[2]), r, new)
RecDel(r, k) == SelectSeq(r, LAMBDA e : e[1] # k)

\* A transition's result: the new state and its recommendations.
R(s, r) == [s |-> s, r |-> r]

\* Keyword arguments of transition().
NoArgs == [has |-> FALSE, worker |-> None, nbytes |-> -1, cause |-> None, duration |-> 0]
MemoryArgs(worker, nbytes, duration) ==
    [has |-> TRUE, worker |-> worker, nbytes |-> nbytes, cause |-> None, duration |-> duration]
ErredArgs(cause) ==
    [has |-> TRUE, worker |-> None, nbytes |-> -1, cause |-> cause, duration |-> 0]

\* Scheduler.worker_send: writes to the worker's BatchedSend.  A compute-task
\* message makes the worker run the key, so that it may later report on it.
worker_send(s, w, op, k) ==
    IF w \notin s.worker_comms THEN Raise(s)
    ELSE IF op = "compute-task"
    THEN [s EXCEPT !.assigned = @ \cup {<<k, w>>}, !.sent = @ \cup {<<w, op, k>>}]
    ELSE [s EXCEPT !.sent = @ \cup {<<w, op, k>>}]

\* _remove_from_processing
remove_from_processing(s, k, send) ==
    LET w == s.tasks[k].processing_on
        ws == s.workers[w]
        s1 == [s EXCEPT !.tasks[k].processing_on = None]
        proc == Del(ws.processing, k)
    IN IF w = None THEN Raise(s)
       ELSE IF w \notin Live(s) THEN s1
       ELSE IF k \notin DOMAIN ws.processing THEN Raise(s1)
       ELSE Bind(release_resources(
                     check_idle_saturated(
                         IF DOMAIN proc = {}
                         THEN [s1 EXCEPT !.total_occupancy = @ - ws.occupancy,
                                         !.workers[w].occupancy = 0,
                                         !.workers[w].processing = proc]
                         ELSE [s1 EXCEPT !.total_occupancy = @ - ws.processing[k],
                                         !.workers[w].occupancy = @ - ws.processing[k],
                                         !.workers[w].processing = proc],
                         w),
                     k, w),
                 LAMBDA s3 : IF send THEN worker_send(s3, w, "release-task", k) ELSE s3)

\* The loop of _add_to_memory and of the transitions out of processing over
\* ts.dependencies: ts stops waiting for them.
release_waiters(st0, k, deps) ==
    Fold(LAMBDA st, d :
           R([st.s EXCEPT !.tasks[d].waiters = @ \ {k}],
             IF st.s.tasks[d].waiters \ {k} = {} /\ st.s.tasks[d].who_wants = {}
             THEN RecSet(st.r, d, "released") ELSE st.r),
         st0, KeySeq(deps))

\* _add_to_memory
add_to_memory(s, k, w, recs) ==
    LET ts == s.tasks[k]
    IN With(release_waiters(
                Fold(LAMBDA st, d :
                       IF k \in st.s.tasks[d].waiting_on
                       THEN R([st.s EXCEPT !.tasks[d].waiting_on = @ \ {k}],
                              IF st.s.tasks[d].waiting_on = {k}
                              THEN RecSet(st.r, d, "processing") ELSE st.r)
                       ELSE st,
                     R([s EXCEPT !.tasks[k].who_has = @ \cup {w},
                                 !.workers[w].has_what = @ \cup {k},
                                 !.workers[w].nbytes = @ + get_nbytes(ts)],
                       recs),
                     KeySeq(ts.dependents)),
                k, ts.dependencies),
            LAMBDA st3 :
                R([st3.s EXCEPT !.tasks[k].state = "memory", !.changes = Note(st3.s, k, "memory")],
                  IF ts.waiters = {} /\ ts.who_wants = {}
                  THEN RecSet(st3.r, k, "released") ELSE st3.r))

\* The loop of transition_released_waiting and transition_no_worker_waiting
\* over ts.dependencies.
wait_for_dependencies(s1, k) ==
    Fold(LAMBDA st, d :
           LET dts == st.s.tasks[d]
               sa == IF dts.who_has = {}
                     THEN [st.s EXCEPT !.tasks[k].waiting_on = @ \cup {d}]
                     ELSE st.s
           IN IF dts.state = "released"
              THEN R(sa, RecSet(st.r, d, "waiting"))
              ELSE R([sa EXCEPT !.tasks[d].waiters = @ \cup {k}], st.r),
         R(s1, <<>>), KeySeq(s1.tasks[k].dependencies))

\* The end of transition_released_waiting and transition_no_worker_waiting.
ready_or_waiting(s, st, k) ==
    IF st.s.tasks[k].waiting_on # {} THEN st
    ELSE IF Live(s) # {} THEN R(st.s, RecSet(st.r, k, "processing"))
    ELSE R([st.s EXCEPT !.unrunnable = @ \cup {k}, !.tasks[k].state = "no-worker", !.changes = Note(st.s, k, "no-worker")],
           st.r)

\* transition_released_waiting
transition_released_waiting(s, k) ==
    LET ts == s.tasks[k]
        blamed == {d \in ts.dependencies : s.tasks[d].exception_blame # None}
        s1 == [s EXCEPT !.tasks[k].state = "waiting", !.changes = Note(s, k, "waiting")]
    IN IF ts.has_lost_dependencies THEN R(s, <<<<k, "forgotten">>>>)
       ELSE IF blamed # {}
       THEN R([s1 EXCEPT !.tasks[k].exception_blame =
                   s.tasks[KeySeq(blamed)[1]].exception_blame],
              <<<<k, "erred">>>>)
       ELSE With(wait_for_dependencies(s1, k),
                 LAMBDA st2 :
                     ready_or_waiting(s,
                         R([st2.s EXCEPT !.tasks[k].waiters =
                                {d \in ts.dependents : st2.s.tasks[d].state = "waiting"}],
                           st2.r),
                         k))

\* transition_no_worker_waiting
transition_no_worker_waiting(s, k) ==
    LET s1 == [s EXCEPT !.unrunnable = @ \ {k}]
    IN IF k \notin s.unrunnable THEN R(Raise(s), <<>>)
       ELSE IF s.tasks[k].has_lost_dependencies THEN R(s1, <<<<k, "forgotten">>>>)
       ELSE With(wait_for_dependencies(s1, k),
                 LAMBDA st2 :
                     ready_or_waiting(s,
                         R([st2.s EXCEPT !.tasks[k].state = "waiting", !.changes = Note(st2.s, k, "waiting")], st2.r), k))

\* transition_waiting_processing, once decide_worker has chosen w.
assign_to_worker(s, k, w) ==
    LET cost == get_task_duration(s) + get_comm_cost(s, k, w)
        s1 == note_unknown_duration(s, k)
    IN Bind(consume_resources(
                [s1 EXCEPT !.tasks[k].processing_on = w,
                           !.tasks[k].state = "processing", !.changes = Note(s1, k, "processing"),
                           !.workers[w].processing = Put(@, k, cost),
                           !.workers[w].occupancy = @ + cost,
                           !.total_occupancy = @ + cost],
                k, w),
            LAMBDA s3 : worker_send(check_idle_saturated(s3, w), w, "compute-task", k))

\* transition_waiting_processing
transition_waiting_processing(s, k) ==
    With(Scheduler_decide_worker(s, k),
         LAMBDA d : IF d.s.exc \/ d.worker = None THEN R(d.s, <<>>)
                    ELSE R(assign_to_worker(d.s, k, d.worker), <<>>))

\* transition_waiting_memory
transition_waiting_memory(s, k, a) ==
    LET s1 == [s EXCEPT !.tasks[k].waiting_on = {}]
    IN IF a.worker \notin Live(s) THEN R(Raise(s), <<>>)
       ELSE add_to_memory(
                check_idle_saturated(
                    IF a.nbytes # -1 THEN set_nbytes(s1, k, a.nbytes) ELSE s1,
                    a.worker),
                k, a.worker, <<>>)

\* The timing update of transition_processing_memory: the prefix's mean duration
\* and the estimates of the tasks whose duration was unknown.
update_task_duration(s, k, w, new_duration) ==
    LET old == IF s.task_duration = -1 THEN 0 ELSE s.task_duration
        avg == IF old = 0 THEN new_duration ELSE (old + new_duration) \div 2
    IN Fold(LAMBDA st, t :
              LET ww == st.tasks[t].processing_on
                  o == st.workers[ww].processing[t]
                  n == avg + get_comm_cost(st, t, ww)
              IN IF ww = None THEN st
                 ELSE IF t \notin DOMAIN st.workers[ww].processing THEN Raise(st)
                 ELSE [st EXCEPT !.workers[ww].processing[t] = n,
                                 !.workers[ww].occupancy = @ + n - o,
                                 !.total_occupancy = @ + n - o],
            [s EXCEPT !.task_duration = avg, !.unknown_durations = {}],
            KeySeq(s.unknown_durations))

\* transition_processing_memory
transition_processing_memory(s, k, a) ==
    LET w == a.worker
        timed == a.duration > 0 /\ k \in DOMAIN s.workers[w].processing
                 /\ s.workers[w].processing[k] # 0
    IN IF w \notin Live(s) THEN R(s, <<<<k, "released">>>>)
       ELSE IF w # s.tasks[k].processing_on THEN R(s, <<>>)
       ELSE With(Bind(IF timed THEN update_task_duration(s, k, w, a.duration) ELSE s,
                      LAMBDA s1 :
                          remove_from_processing(
                              IF a.nbytes # -1 THEN set_nbytes(s1, k, a.nbytes) ELSE s1,
                              k, FALSE)),
                 LAMBDA s3 : IF s3.exc THEN R(s3, <<>>) ELSE add_to_memory(s3, k, w, <<>>))

\* transition_memory_released
transition_memory_released(s, k) ==
    LET ts == s.tasks[k]
    IN With(Fold(LAMBDA st, d :
                   IF st.s.tasks[d].state \in {"no-worker", "processing"}
                   THEN R(st.s, RecSet(st.r, d, "waiting"))
                   ELSE IF st.s.tasks[d].state = "waiting"
                   THEN R([st.s EXCEPT !.tasks[d].waiting_on = @ \cup {k}], st.r)
                   ELSE st,
                 R(s, <<>>), KeySeq(ts.waiters)),
            LAMBDA st1 :
                R(Bind(Fold(LAMBDA st, w :
                              IF st.exc THEN st
                              ELSE IF k \notin st.workers[w].has_what THEN Raise(st)
                              ELSE worker_send(
                                       [st EXCEPT !.workers[w].has_what = @ \ {k},
                                                  !.workers[w].nbytes = @ - get_nbytes(ts)],
                                       w, "delete-data", k),
                            st1.s, WorkerSeq(ts.who_has)),
                       LAMBDA s2 : [s2 EXCEPT !.tasks[k].who_has = {},
                                              !.tasks[k].state = "released", !.changes = Note(s2, k, "released")]),
                  IF ~ts.run_spec \/ ts.has_lost_dependencies
                  THEN RecSet(st1.r, k, "forgotten")
                  ELSE IF ts.who_wants # {} \/ ts.waiters # {}
                  THEN RecSet(st1.r, k, "waiting")
                  ELSE st1.r))

\* transition_released_erred
transition_released_erred(s, k) ==
    LET ts == s.tasks[k]
        failing == ts.exception_blame
    IN IF failing = None THEN R(Raise(s), <<>>)
       ELSE With(Fold(LAMBDA st, d :
                        R([st.s EXCEPT !.tasks[d].exception_blame = failing],
                          IF st.s.tasks[d].who_has = {}
                          THEN RecSet(st.r, d, "erred") ELSE st.r),
                      R(s, <<>>), KeySeq(ts.dependents)),
                 LAMBDA st1 : R([st1.s EXCEPT !.tasks[k].state = "erred", !.changes = Note(st1.s, k, "erred")], st1.r))

\* transition_erred_released
transition_erred_released(s, k) ==
    R([s EXCEPT !.tasks[k].exception_blame = None, !.tasks[k].state = "released", !.changes = Note(s, k, "released")],
      Fold(LAMBDA r, d :
             IF s.tasks[d].state = "erred" THEN RecSet(r, d, "waiting") ELSE r,
           <<>>, KeySeq(s.tasks[k].dependents)))

\* transition_waiting_released
transition_waiting_released(s, k) ==
    LET ts == s.tasks[k]
    IN With(Fold(LAMBDA st, d :
                   IF k \in st.s.tasks[d].waiters
                   THEN R([st.s EXCEPT !.tasks[d].waiters = @ \ {k}],
                          IF st.s.tasks[d].waiters = {k} /\ st.s.tasks[d].who_wants = {}
                          THEN RecSet(st.r, d, "released") ELSE st.r)
                   ELSE st,
                 R([s EXCEPT !.tasks[k].waiting_on = {}, !.tasks[k].state = "released", !.changes = Note(s, k, "released")],
                   <<>>),
                 KeySeq(ts.dependencies)),
            LAMBDA st1 :
                IF ts.has_lost_dependencies THEN R(st1.s, RecSet(st1.r, k, "forgotten"))
                ELSE IF ts.exception_blame = None
                        /\ (ts.who_wants # {} \/ ts.waiters # {})
                THEN R(st1.s, RecSet(st1.r, k, "waiting"))
                ELSE R([st1.s EXCEPT !.tasks[k].waiters = {}], st1.r))

\* transition_processing_released
transition_processing_released(s, k) ==
    LET ts == s.tasks[k]
        r2 == IF ts.has_lost_dependencies THEN <<<<k, "forgotten">>>>
              ELSE IF ts.waiters # {} \/ ts.who_wants # {} THEN <<<<k, "waiting">>>>
              ELSE <<>>
    IN With(remove_from_processing(s, k, TRUE),
            LAMBDA s1 :
                IF s1.exc THEN R(s1, <<>>)
                ELSE IF ts.has_lost_dependencies = FALSE
                        /\ (ts.waiters # {} \/ ts.who_wants # {})
                THEN R([s1 EXCEPT !.tasks[k].state = "released", !.changes = Note(s1, k, "released")], r2)
                ELSE With(Fold(LAMBDA st, d :
                                 IF st.s.tasks[d].state # "released"
                                 THEN R([st.s EXCEPT !.tasks[d].waiters = @ \ {k}],
                                        IF st.s.tasks[d].waiters \ {k} = {}
                                           /\ st.s.tasks[d].who_wants = {}
                                        THEN RecSet(st.r, d, "released") ELSE st.r)
                                 ELSE st,
                               R([s1 EXCEPT !.tasks[k].state = "released", !.changes = Note(s1, k, "released")], r2),
                               KeySeq(ts.dependencies)),
                          LAMBDA st3 : R([st3.s EXCEPT !.tasks[k].waiters = {}], st3.r)))

\* transition_processing_erred
transition_processing_erred(s, k, a) ==
    LET ts == s.tasks[k]
        failing == IF a.cause # None THEN a.cause ELSE ts.exception_blame
    IN With(remove_from_processing(s, k, FALSE),
            LAMBDA s1 :
                IF s1.exc THEN R(s1, <<>>)
                ELSE IF a.cause # None /\ ~InTable(s, a.cause) THEN R(Raise(s1), <<>>)
                ELSE With(release_waiters(
                              Fold(LAMBDA st, d :
                                     R([st.s EXCEPT !.tasks[d].exception_blame = failing],
                                       RecSet(st.r, d, "erred")),
                                   R([s1 EXCEPT !.tasks[k].exception_blame = failing],
                                     <<>>),
                                   KeySeq(ts.dependents)),
                              k, ts.dependencies),
                          LAMBDA st4 :
                              R([st4.s EXCEPT !.tasks[k].waiters = {},
                                              !.tasks[k].state = "erred", !.changes = Note(st4.s, k, "erred")],
                                st4.r)))

\* transition_no_worker_released
transition_no_worker_released(s, k) ==
    IF k \notin s.unrunnable THEN R(Raise(s), <<>>)
    ELSE R([Fold(LAMBDA st, d : [st EXCEPT !.tasks[d].waiters = @ \ {k}],
                 [s EXCEPT !.unrunnable = @ \ {k}, !.tasks[k].state = "released", !.changes = Note(s, k, "released")],
                 KeySeq(s.tasks[k].dependencies))
               EXCEPT !.tasks[k].waiters = {}],
           <<>>)

\* _propagate_forgotten followed by remove_key
propagate_forgotten(s, k) ==
    LET ts == s.tasks[k]
    IN With(Fold(LAMBDA st, d :
                   R([st.s EXCEPT !.tasks[d].dependents = @ \ {k},
                                  !.tasks[d].waiters = @ \ {k}],
                     IF st.s.tasks[d].dependents \ {k} = {} /\ st.s.tasks[d].who_wants = {}
                     THEN RecSet(st.r, d, "forgotten") ELSE st.r),
                 Fold(LAMBDA st, d :
                        R([st.s EXCEPT !.tasks[d].has_lost_dependencies = TRUE,
                                       !.tasks[d].dependencies = @ \ {k},
                                       !.tasks[d].waiting_on = @ \ {k}],
                          IF st.s.tasks[d].state \notin {"memory", "erred"}
                          THEN RecSet(st.r, d, "forgotten") ELSE st.r),
                      R(s, <<>>), KeySeq(ts.dependents)),
                 KeySeq(ts.dependencies)),
            LAMBDA st2 :
                R(Bind(Fold(LAMBDA st, w :
                              IF st.exc THEN st
                              ELSE IF k \notin st.workers[w].has_what THEN Raise(st)
                              ELSE With([st EXCEPT !.workers[w].has_what = @ \ {k},
                                                   !.workers[w].nbytes =
                                                       @ - get_nbytes(ts)],
                                        LAMBDA sa :
                                            IF w \in DOMAIN st.worker_info
                                            THEN worker_send(sa, w, "delete-data", k)
                                            ELSE sa),
                            st2.s, WorkerSeq(ts.who_has)),
                       LAMBDA s3 :
                           [s3 EXCEPT !.tasks[k] = NoTask, !.changes = Note(s3, k, "forgotten"),
                                      !.unrunnable = @ \ {k},
                                      !.clients = [c \in DOMAIN s3.clients |->
                                                      IF c \in ts.who_wants
                                                      THEN s3.clients[c] \ {k}
                                                      ELSE s3.clients[c]]]),
                  st2.r))

\* transition_memory_forgotten
transition_memory_forgotten(s, k) == propagate_forgotten(s, k)

\* transition_released_forgotten (also registered for erred -> forgotten)
transition_released_forgotten(s, k) == propagate_forgotten(s, k)

\* The table Scheduler._transitions.
InTransitionTable(start, finish) ==
    <<start, finish>> \in
        {<<"released", "waiting">>, <<"waiting", "released">>,
         <<"waiting", "processing">>, <<"waiting", "memory">>,
         <<"processing", "released">>, <<"processing", "memory">>,
         <<"processing", "erred">>, <<"no-worker", "released">>,
         <<"no-worker", "waiting">>, <<"released", "forgotten">>,
         <<"memory", "forgotten">>, <<"erred", "forgotten">>,
         <<"erred", "released">>, <<"memory", "released">>,
         <<"released", "erred">>}

\* The function Scheduler._transitions holds for (start, finish).
Dispatch(s, start, k, finish, a) ==
    CASE start = "released" /\ finish = "waiting" -> transition_released_waiting(s, k)
      [] start = "waiting" /\ finish = "released" -> transition_waiting_released(s, k)
      [] start = "waiting" /\ finish = "processing" -> transition_waiting_processing(s, k)
      [] start = "waiting" /\ finish = "memory" -> transition_waiting_memory(s, k, a)
      [] start = "processing" /\ finish = "released" -> transition_processing_released(s, k)
      [] start = "processing" /\ finish = "memory" -> transition_processing_memory(s, k, a)
      [] start = "processing" /\ finish = "erred" -> transition_processing_erred(s, k, a)
      [] start = "no-worker" /\ finish = "released" -> transition_no_worker_released(s, k)
      [] start = "no-worker" /\ finish = "waiting" -> transition_no_worker_waiting(s, k)
      [] start = "released" /\ finish = "forgotten" -> transition_released_forgotten(s, k)
      [] start = "memory" /\ finish = "forgotten" -> transition_memory_forgotten(s, k)
      [] start = "erred" /\ finish = "forgotten" -> transition_released_forgotten(s, k)
      [] start = "erred" /\ finish = "released" -> transition_erred_released(s, k)
      [] start = "memory" /\ finish = "released" -> transition_memory_released(s, k)
      [] start = "released" /\ finish = "erred" -> transition_released_erred(s, k)

RECURSIVE transition(_, _, _, _)
\* Scheduler.transition(key, finish, **kwargs): a pair that is not in the table
\* goes through released, by two calls of the table's functions.
transition(s, k, finish, a) ==
    LET start == s.tasks[k].state
    IN IF s.exc \/ ~InTable(s, k) \/ start = finish THEN R(s, <<>>)
       ELSE IF InTransitionTable(start, finish) THEN Dispatch(s, start, k, finish, a)
       ELSE IF "released" \in {start, finish} \/ ~InTransitionTable("released", finish)
               \/ a.has
       THEN R(Raise(s), <<>>)
       ELSE With(transition(s, k, "released", NoArgs),
                 LAMBDA ra :
                     IF ra.s.exc THEN ra
                     ELSE IF ~InTransitionTable(
                                 "released",
                                 IF RecHas(ra.r, k) THEN RecGet(ra.r, k) ELSE finish)
                     THEN R(Raise(ra.s), ra.r)
                     ELSE With(transition(ra.s, k,
                                          IF RecHas(ra.r, k) THEN RecGet(ra.r, k)
                                          ELSE finish,
                                          NoArgs),
                               LAMBDA rb : R(rb.s, RecUpdate(ra.r, rb.r))))

RECURSIVE transitions(_, _)
\* Scheduler.transitions: apply recommendations until none are left.
transitions(s, recs) ==
    IF s.exc \/ recs = <<>> THEN s
    ELSE With(transition(s, recs[Len(recs)][1], recs[Len(recs)][2], NoArgs),
              LAMBDA t : transitions(t.s, RecUpdate(SubSeq(recs, 1, Len(recs) - 1), t.r)))

(***************************************************************************)
(* Workers                                                                 *)
(***************************************************************************)

Names == {"alice"}

\* Scheduler.add_resources (also the set_resources handler)
add_resources(s, w, q) ==
    IF w \notin Live(s) THEN Raise(s)
    ELSE IF q = -1
    THEN [s EXCEPT !.workers[w].resources = q, !.workers[w].used_resources = 0]
    ELSE [s EXCEPT !.workers[w].resources = q, !.workers[w].used_resources = 0,
                   !.resources = Put(@, w, q)]

\* Scheduler.remove_resources
remove_resources(s, w) ==
    IF s.workers[w].resources = -1 THEN s
    ELSE IF w \notin DOMAIN s.resources THEN Raise(s)
    ELSE [s EXCEPT !.resources = Del(@, w)]

\* The keys a registering worker reports (nbytes): tasks in processing or
\* waiting go to memory on that worker.
RegisterKeys(s, w, nb) ==
    Fold(LAMBDA st, k :
           IF st.exc \/ ~InTable(st, k)
              \/ st.tasks[k].state \notin {"processing", "waiting"}
           THEN st
           ELSE With(transition(st, k, "memory", MemoryArgs(w, nb[k], 0)),
                     LAMBDA t : transitions(t.s, t.r)),
         s, KeySeq(DOMAIN nb))

\* The scan of unrunnable tasks at the end of add_worker.
RescanUnrunnable(s, w) ==
    With([k \in s.unrunnable |-> valid_workers(s, s.tasks[k])],
         LAMBDA valid :
             IF \E k \in s.unrunnable : valid[k].exc THEN Raise(s)
             ELSE transitions(s, Fold(LAMBDA r, k :
                                        IF valid[k].all \/ w \in valid[k].set
                                        THEN RecSet(r, k, "waiting") ELSE r,
                                      <<>>, KeySeq(s.unrunnable))))

\* add_worker up to the heartbeat's return: the WorkerState, the worker_info
\* and host_info entries (defaultdict entries) and the resources.
KnowWorker(s, w, q) ==
    LET host == HostOf(w)
        s1 == IF w \in Live(s) THEN s
              ELSE [s EXCEPT !.workers = Put(@, w, NewWorker(NcoresOf(w))),
                             !.removed = @ \ {w}]
    IN With([s1 EXCEPT !.host_info =
                           IF host \in DOMAIN @ THEN @
                           ELSE Put(@, host, [has_addresses |-> FALSE,
                                              addresses |-> {}, cores |-> 0]),
                       !.worker_info =
                           IF w \in DOMAIN @ THEN @ ELSE Put(@, w, [name |-> None])],
            LAMBDA s3 : IF q # -1 THEN add_resources(s3, w, q) ELSE s3)

\* add_worker for a new address with a free name, up to the reported keys.
EnterWorker(s, w, nm) ==
    LET host == HostOf(w)
        hi == IF s.host_info[host].has_addresses THEN s.host_info[host]
              ELSE [has_addresses |-> TRUE, addresses |-> {}, cores |-> 0]
    IN With(check_idle_saturated(
                [s EXCEPT !.host_info[host] =
                              [has_addresses |-> TRUE,
                               addresses |-> hi.addresses \cup {w},
                               cores |-> hi.cores + NcoresOf(w)],
                          !.total_ncores = @ + NcoresOf(w),
                          !.aliases = Put(@, nm, w),
                          !.worker_info[w].name = nm],
                w),
            LAMBDA s6 :
                [s6 EXCEPT !.worker_comms = @ \cup {w},
                           !.idle = IF s6.workers[w].ncores >
                                          Cardinality(DOMAIN s6.workers[w].processing)
                                    THEN @ \cup {w} ELSE @])

\* Scheduler.add_worker: a first registration, a heartbeat of a known address,
\* or a registration refused because the name is taken.
add_worker(s, w, name, q, nb) ==
    LET nm == IF name = None THEN w ELSE name
    IN With(KnowWorker(s, w, q),
            LAMBDA s4 :
                IF w \in Live(s) \/ nm \in DOMAIN s4.aliases THEN s4
                ELSE Bind(RegisterKeys(EnterWorker(s4, w, nm), w, nb),
                          LAMBDA s8 : RescanUnrunnable(s8, w)))

\* The loop of remove_worker over the tasks the worker was processing.
RemoveProcessing(s, w, ws, safe) ==
    Fold(LAMBDA st, k :
           IF st.s.exc THEN st
           ELSE IF safe THEN R(st.s, RecSet(st.r, k, "released"))
           ELSE IF st.s.tasks[k].suspicious + 1 > AllowedFailures
           THEN With(transition([st.s EXCEPT !.tasks[k].suspicious = @ + 1],
                                k, "erred", ErredArgs(k)),
                     LAMBDA t : R(t.s, RecUpdate(RecDel(st.r, k), t.r)))
           ELSE R([st.s EXCEPT !.tasks[k].suspicious = @ + 1],
                  RecSet(st.r, k, "released")),
         R(s, <<>>), KeySeq(DOMAIN ws.processing))

\* The loop of remove_worker over the data the worker held.
RemoveHasWhat(st0, w, ws) ==
    Fold(LAMBDA st, k :
           IF st.s.exc THEN st
           ELSE IF w \notin st.s.tasks[k].who_has THEN R(Raise(st.s), st.r)
           ELSE R([st.s EXCEPT !.tasks[k].who_has = @ \ {w}],
                  IF st.s.tasks[k].who_has # {w} THEN st.r
                  ELSE IF st.s.tasks[k].run_spec THEN RecSet(st.r, k, "released")
                  ELSE RecSet(st.r, k, "forgotten")),
         st0, KeySeq(ws.has_what))

\* remove_worker(w) has returned: w counts as removed until it registers again.
Removed(s, w) == IF s.exc THEN s ELSE [s EXCEPT !.removed = @ \cup {w}]

\* remove_worker once the resources are released: the tables, then the
\* worker's tasks and data.
LeaveTables(s, s1, w, safe) ==
    LET host == HostOf(w)
        ws == s.workers[w]
        hi == s1.host_info[host]
        s2 == [s1 EXCEPT !.host_info =
                             IF hi.addresses = {w} THEN Del(@, host)
                             ELSE [@ EXCEPT ![host].cores = @ - ws.ncores,
                                            ![host].addresses = @ \ {w}],
                         !.total_ncores = @ - ws.ncores,
                         !.worker_comms = @ \ {w}]
    IN IF ~hi.has_addresses \/ w \notin hi.addresses THEN Raise(s1)
       ELSE IF s1.worker_info[w].name \notin DOMAIN s1.aliases THEN Raise(s2)
       ELSE With(RemoveHasWhat(
                     RemoveProcessing(
                         [s2 EXCEPT !.aliases = Del(@, s1.worker_info[w].name),
                                    !.worker_info = Del(@, w),
                                    !.idle = @ \ {w},
                                    !.workers[w].live = FALSE,
                                    !.total_occupancy = @ - ws.occupancy],
                         w, ws, safe),
                     w, ws),
                 LAMBDA st5 :
                     IF st5.s.exc THEN st5.s
                     ELSE Removed(transitions([st5.s EXCEPT !.workers[w].has_what = {}],
                                              st5.r),
                                  w))

\* Scheduler.remove_worker
remove_worker(s, w, safe) ==
    IF w \notin Live(s) THEN s
    ELSE IF w \notin s.worker_comms THEN Raise(s)
    ELSE Bind(remove_resources(s, w), LAMBDA s1 : LeaveTables(s, s1, w, safe))

(***************************************************************************)
(* Clients                                                                 *)
(***************************************************************************)

\* ClientState objects are compared by identity.  A task's who_wants names the
\* ClientState of the clients table by the client's id, and a ClientState that
\* has left the table (replaced or deleted) by StaleClient of that id.
StaleClient(c) == IF c = "c1" THEN "c1-replaced" ELSE "c2-replaced"

\* ClientState.client_key
client_key(cs) ==
    IF cs = "c1-replaced" THEN "c1" ELSE IF cs = "c2-replaced" THEN "c2" ELSE cs

\* The ClientState of c leaves the clients table; the tasks that hold it in
\* who_wants keep it.
Replaced(s, c) ==
    [s EXCEPT !.tasks = [k \in Keys |->
                            [@[k] EXCEPT !.who_wants =
                                 IF c \in @ THEN (@ \ {c}) \cup {StaleClient(c)} ELSE @]]]

\* Scheduler.client_desires_keys
client_desires_keys(s, keys, c) ==
    Fold(LAMBDA st, k :
           [st EXCEPT !.tasks[k] = [(IF InTable(st, k) THEN @ ELSE NewTask(FALSE))
                                       EXCEPT !.who_wants = @ \cup {c}],
                      !.clients[c] = @ \cup {k}],
         IF c \in DOMAIN s.clients THEN s ELSE [s EXCEPT !.clients = Put(@, c, {})],
         KeySeq(keys))

\* Scheduler.client_releases_keys
client_releases_keys(s, keys, c) ==
    IF c \notin DOMAIN s.clients THEN Raise(s)
    ELSE With(Fold(LAMBDA st, k :
                     IF st.s.exc \/ ~InTable(st.s, k) \/ k \notin st.s.clients[c]
                     THEN st
                     ELSE IF c \notin st.s.tasks[k].who_wants
                     THEN R(Raise([st.s EXCEPT !.clients[c] = @ \ {k}]), st.r)
                     ELSE R([st.s EXCEPT !.clients[c] = @ \ {k},
                                         !.tasks[k].who_wants = @ \ {c}],
                            IF st.s.tasks[k].who_wants = {c}
                            THEN Append(st.r, k) ELSE st.r),
                   R(s, <<>>), KeySeq(keys)),
              LAMBDA st1 :
                  transitions(st1.s,
                              Fold(LAMBDA r, k :
                                     IF st1.s.tasks[k].dependents = {}
                                     THEN RecSet(r, k, "forgotten")
                                     ELSE IF st1.s.tasks[k].state # "erred"
                                             /\ st1.s.tasks[k].waiters = {}
                                     THEN RecSet(r, k, "released")
                                     ELSE r,
                                   <<>>, st1.r)))

\* Scheduler.add_client: the registration itself (handle_client then listens).
\* self.clients[client] = ClientState(client) replaces the state of a client
\* that is already in the table.
add_client(s, c) ==
    [Replaced(s, c) EXCEPT !.clients = Put(@, c, {}), !.client_comms = @ \cup {c}]

\* Scheduler.remove_client
remove_client(s, c) ==
    IF c \notin DOMAIN s.clients THEN s
    ELSE Bind(client_releases_keys(s, s.clients[c], c),
              LAMBDA s1 : [Replaced(s1, c) EXCEPT !.clients = Del(@, c)])

\* The default of the parameter retries of Scheduler.cancel_key.
CancelRetries == 5

\* Scheduler.report of a message about key k, without a client argument: to
\* the streams of the clients that want the key, and to every client when
\* the key is not a task.
report(s, op, k) ==
    [s EXCEPT !.sent = @ \cup {<<c, op, k>> :
                 c \in IF InTable(s, k) THEN s.tasks[k].who_wants \cap s.client_comms
                       ELSE s.client_comms}]

RECURSIVE cancel_key_one_client(_, _, _, _, _)
\* cancel_key releasing the key for one of the clients that want it, where
\* the code releases it for all of them when forced.
cancel_key_one_client(s, k, c, retries, force) ==
    LET ts == s.tasks[k]
    IN IF s.exc THEN s
       ELSE IF c \notin DOMAIN s.clients THEN Raise(s)
       ELSE IF ~InTable(s, k) \/ ts.who_wants = {}
       THEN IF retries # 0
            THEN [s EXCEPT !.timers = Append(@, <<k, c, retries - 1>>)]
            ELSE s
       ELSE With(IF force \/ ts.who_wants = {c}
                 THEN Fold(LAMBDA st, d :
                             IF st.exc THEN st
                             ELSE cancel_key_one_client(st, d, c, CancelRetries, force),
                           s, KeySeq(ts.dependents))
                 ELSE s,
                 LAMBDA s1 :
                     Fold(LAMBDA st, cc :
                            IF st.exc THEN st
                            ELSE client_releases_keys(st, {k}, client_key(cc)),
                          s1,
                          SubSeq(ClientSeq(IF ~InTable(s1, k) THEN {}
                                           ELSE IF force THEN s1.tasks[k].who_wants
                                           ELSE {c}), 1, 1)))

RECURSIVE cancel_key(_, _, _, _, _)
\* Scheduler.cancel_key.  A key that is unknown or unwanted is tried again
\* 0.2 s later: the callback  cancel_key(key, client, retries - 1)  is put on
\* the loop, without the force flag.
cancel_key(s, k, c, retries, force) ==
    LET ts == s.tasks[k]
    IN IF s.exc THEN s
       ELSE IF c \notin DOMAIN s.clients THEN Raise(s)
       ELSE IF ~InTable(s, k) \/ ts.who_wants = {}
       THEN IF retries # 0
            THEN [s EXCEPT !.timers = Append(@, <<k, c, retries - 1>>)]
            ELSE s
       ELSE With(IF force \/ ts.who_wants = {c}
                 THEN Fold(LAMBDA st, d :
                             IF st.exc THEN st
                             ELSE cancel_key(st, d, c, CancelRetries, force),
                           s, KeySeq(ts.dependents))
                 ELSE s,
                 LAMBDA s1 :
                     Fold(LAMBDA st, cc :
                            IF st.exc THEN st
                            ELSE client_releases_keys(st, {k}, client_key(cc)),
                          report(s1, "cancelled-key", k),
                          ClientSeq(IF ~InTable(s1, k) THEN {}
                                    ELSE IF force THEN s1.tasks[k].who_wants
                                    ELSE {c})))

\* Scheduler.stimulus_cancel
stimulus_cancel(s, keys, c, force) ==
    Fold(LAMBDA st, k : cancel_key(st, k, c, CancelRetries, force), s, KeySeq(keys))

\* What a client may attach to the keys it asks for in update_graph.
NoOptions ==
    [restrictions |-> FALSE, workers |-> {}, hosts |-> {}, loose |-> FALSE,
     resources |-> 0, retries |-> -1]

\* update_graph, first part: tasks whose dependencies are neither known nor
\* submitted are cancelled.  The result carries the surviving tasks and keys.
CancelLost(s, c, tasks, keys) ==
    Fold(LAMBDA st, k :
           IF st.s.exc THEN st
           ELSE IF \E dep \in GraphDeps(k) : ~InTable(st.s, dep) /\ dep \notin st.tasks
           THEN [s |-> client_releases_keys(st.s, {k}, c),
                 tasks |-> st.tasks \ {k}, keys |-> st.keys \ {k}]
           ELSE st,
         [s |-> s, tasks |-> tasks, keys |-> keys], KeySeq(tasks))

\* update_graph, "Get or create task states".
TouchedKeys(tasks, keys) ==
    keys \cup UNION {GraphDeps(k) : k \in keys \cap tasks}

CreateTasks(s, tasks, touched) ==
    Fold(LAMBDA st, k :
           IF ~InTable(st, k) THEN [st EXCEPT !.tasks[k] = NewTask(k \in tasks)]
           ELSE IF ~st.tasks[k].run_spec THEN [st EXCEPT !.tasks[k].run_spec = k \in tasks]
           ELSE st,
         s, KeySeq(touched))

\* update_graph, "Add dependencies".
AddDependencies(s, tasks) ==
    Fold(LAMBDA st, k :
           IF ~InTable(st, k) \/ st.tasks[k].dependencies # {} THEN st
           ELSE Fold(LAMBDA su, dep :
                       IF ~InTable(su, dep) THEN Raise(su)
                       ELSE [su EXCEPT !.tasks[k].dependencies = @ \cup {dep},
                                       !.tasks[dep].dependents = @ \cup {k}],
                     st, KeySeq(GraphDeps(k))),
         s, KeySeq(tasks))

\* One of the loops of update_graph over the requested keys.
ForKnownKeys(s, keys, Op(_, _)) ==
    Fold(LAMBDA st, k : IF st.exc \/ ~InTable(st, k) THEN st ELSE Op(st, k),
         s, KeySeq(keys))

\* update_graph, restrictions, resources and retries of the requested keys.
SetOptions(s, keys, o) ==
    With(Bind(IF ~o.restrictions THEN s
              ELSE ForKnownKeys(s, keys,
                       LAMBDA st, k :
                           [st EXCEPT !.tasks[k].worker_restrictions = o.workers,
                                      !.tasks[k].host_restrictions = o.hosts]),
              LAMBDA s1 :
                  IF ~(o.restrictions /\ o.loose) THEN s1
                  ELSE Fold(LAMBDA st, k :
                              IF st.exc THEN st
                              ELSE IF ~InTable(st, k) THEN Raise(st)
                              ELSE [st EXCEPT !.tasks[k].loose_restrictions = TRUE],
                            s1, KeySeq(keys))),
         LAMBDA s2 :
             IF s2.exc THEN s2
             ELSE ForKnownKeys(
                      IF o.resources = 0 THEN s2
                      ELSE ForKnownKeys(s2, keys,
                               LAMBDA st, k :
                                   [st EXCEPT !.tasks[k].resource_restrictions =
                                                  o.resources]),
                      IF o.retries <= 0 THEN {} ELSE keys,
                      LAMBDA st, k : [st EXCEPT !.tasks[k].retries = o.retries]))

\* update_graph, "Compute recommendations".  The erred recommendation goes to
\* "key", the variable the loop over set(new_priority) & touched_keys left
\* behind: the last key of a set in its iteration order.
GraphRecommendations(s, tasks, touched) ==
    LET runnables == {k \in touched : s.tasks[k].run_spec}
        prio == KeySeq(tasks \cap touched)
        last == IF prio # <<>> THEN prio[IF s.rev THEN 1 ELSE Len(prio)]
                ELSE IF tasks = {} THEN None ELSE KeySeq(tasks)[Len(KeySeq(tasks))]
    IN Fold(LAMBDA st, k :
              LET blamed == {d \in st.s.tasks[k].dependencies :
                                st.s.tasks[d].exception_blame # None}
              IN IF st.s.exc \/ blamed = {} THEN st
                 ELSE IF last = None THEN R(Raise(st.s), st.r)
                 ELSE R([st.s EXCEPT !.tasks[k].exception_blame =
                               st.s.tasks[KeySeq(blamed)[1]].exception_blame],
                        RecSet(st.r, last, "erred")),
            R(s, Fold(LAMBDA r, k :
                        IF s.tasks[k].state = "released" THEN RecSet(r, k, "waiting")
                        ELSE r,
                      <<>>, KeySeq(runnables))),
            KeySeq(touched))

\* update_graph once the lost tasks are cancelled; a holds what is left.
SubmitGraph(a, c, keys0, o) ==
    LET touched == TouchedKeys(a.tasks, a.keys)
    IN IF a.s.exc THEN a.s
       ELSE Bind(Bind(AddDependencies(
                          client_desires_keys(CreateTasks(a.s, a.tasks, touched),
                                              a.keys, c),
                          a.tasks),
                      LAMBDA s3 : SetOptions(s3, keys0, o)),
                 LAMBDA s4 :
                     With(GraphRecommendations(s4, a.tasks, touched),
                          LAMBDA st5 : transitions(st5.s, st5.r)))

\* Scheduler.update_graph
update_graph(s, c, tasks0, keys0, o) ==
    With(CancelLost(s, c, tasks0, keys0), LAMBDA a : SubmitGraph(a, c, keys0, o))

\* Scheduler.update_data
update_data(s, who_has, nbytes, c) ==
    Bind(Fold(LAMBDA st, k :
                IF st.exc THEN st
                ELSE Fold(LAMBDA su, w :
                            IF su.exc THEN su
                            ELSE IF w \notin Live(su) THEN Raise(su)
                            ELSE IF k \in su.workers[w].has_what THEN su
                            ELSE [su EXCEPT
                                    !.workers[w].nbytes = @ + get_nbytes(su.tasks[k]),
                                    !.workers[w].has_what = @ \cup {k},
                                    !.tasks[k].who_has = @ \cup {w}],
                          With(IF InTable(st, k)
                               THEN [st EXCEPT !.tasks[k].state = "memory", !.changes = Note(st, k, "memory")]
                               ELSE [st EXCEPT !.tasks[k] =
                                        [NewTask(FALSE) EXCEPT !.state = "memory"]],
                               LAMBDA sb : IF k \in DOMAIN nbytes
                                           THEN set_nbytes(sb, k, nbytes[k]) ELSE sb),
                          who_has[k]),
              s, KeySeq(DOMAIN who_has)),
         LAMBDA s1 : IF c = None THEN s1
                     ELSE client_desires_keys(s1, DOMAIN who_has, c))

(***************************************************************************)
(* Messages from workers                                                   *)
(***************************************************************************)

\* stimulus_task_finished without "if ws not in ts.who_has".
stimulus_task_finished_always_releases(s, k, w, nbytes, duration) ==
    IF ~InTable(s, k) THEN R(s, <<>>)
    ELSE IF w \notin Live(s) THEN R(Raise(s), <<>>)
    ELSE IF s.tasks[k].state = "processing"
    THEN With(transition(s, k, "memory", MemoryArgs(w, nbytes, duration)),
              LAMBDA t :
                  IF ~t.s.exc /\ t.s.tasks[k].state = "memory"
                     /\ w \notin t.s.tasks[k].who_has
                  THEN R(Raise(t.s), t.r)
                  ELSE t)
    ELSE R(worker_send(s, w, "release-task", k), <<>>)

\* Scheduler.stimulus_task_finished; the result carries the recommendations.
stimulus_task_finished(s, k, w, nbytes, duration) ==
    IF ~InTable(s, k) THEN R(s, <<>>)
    ELSE IF w \notin Live(s) THEN R(Raise(s), <<>>)
    ELSE IF s.tasks[k].state = "processing"
    THEN With(transition(s, k, "memory", MemoryArgs(w, nbytes, duration)),
              LAMBDA t :
                  IF ~t.s.exc /\ t.s.tasks[k].state = "memory"
                     /\ w \notin t.s.tasks[k].who_has
                  THEN R(Raise(t.s), t.r)
                  ELSE t)
    ELSE IF w \notin s.tasks[k].who_has
    THEN R(worker_send(s, w, "release-task", k), <<>>)
    ELSE R(s, <<>>)

\* Scheduler.handle_task_finished
handle_task_finished(s, k, w, nbytes, duration) ==
    With(stimulus_task_finished(s, k, w, nbytes, duration),
         LAMBDA t : transitions(t.s, t.r))

\* stimulus_task_erred without "ts.retries = retries - 1".
stimulus_task_erred_keeps_retries(s, k, w) ==
    IF ~InTable(s, k) \/ s.tasks[k].state # "processing" THEN R(s, <<>>)
    ELSE transition(s, k,
                    IF s.tasks[k].retries > 0 THEN "waiting" ELSE "erred",
                    IF s.tasks[k].retries > 0 THEN NoArgs ELSE ErredArgs(k))

\* Scheduler.stimulus_task_erred
stimulus_task_erred(s, k, w) ==
    IF ~InTable(s, k) \/ s.tasks[k].state # "processing" THEN R(s, <<>>)
    ELSE transition([s EXCEPT !.tasks[k].retries = IF @ > 0 THEN @ - 1 ELSE @], k,
                    IF s.tasks[k].retries > 0 THEN "waiting" ELSE "erred",
                    IF s.tasks[k].retries > 0 THEN NoArgs ELSE ErredArgs(k))

\* Scheduler.handle_task_erred
handle_task_erred(s, k, w) ==
    With(stimulus_task_erred(s, k, w), LAMBDA t : transitions(t.s, t.r))

\* Scheduler.stimulus_missing_data
stimulus_missing_data(s, cause, k) ==
    LET lost == cause # None /\ InTable(s, cause) /\ s.tasks[cause].state = "memory"
    IN IF ~InTable(s, k) \/ s.tasks[k].state = "memory" THEN s
       ELSE Bind(IF ~lost THEN s
                 ELSE Fold(LAMBDA st, w :
                             IF st.exc THEN st
                             ELSE IF cause \notin st.workers[w].has_what
                             THEN Raise(st)
                             ELSE [st EXCEPT !.workers[w].has_what = @ \ {cause},
                                             !.workers[w].nbytes =
                                                 @ - get_nbytes(st.tasks[cause])],
                           s, WorkerSeq(s.tasks[cause].who_has)),
                 LAMBDA s1 :
                     transitions(IF lost THEN [s1 EXCEPT !.tasks[cause].who_has = {}]
                                 ELSE s1,
                                 RecSet(IF lost THEN <<<<cause, "released">>>> ELSE <<>>,
                                        k, "released")))

\* Scheduler.handle_release_data
handle_release_data(s, k, w, cause) ==
    IF ~InTable(s, k) THEN s
    ELSE IF w \notin Live(s) THEN Raise(s)
    ELSE IF s.tasks[k].processing_on # w THEN s
    ELSE stimulus_missing_data(s, cause, k)

\* Scheduler.handle_missing_data
handle_missing_data(s, k, errant_worker) ==
    LET w == errant_worker
        s1 == [s EXCEPT !.tasks[k].who_has = @ \ {w}]
    IN IF ~InTable(s, k) \/ s.tasks[k].who_has = {} THEN s
       ELSE IF w \notin Live(s) THEN Raise(s)
       ELSE IF w \in s.tasks[k].who_has /\ k \notin s.workers[w].has_what
       THEN Raise(s1)
       ELSE IF s1.tasks[k].who_has # {}
       THEN IF w \notin s.tasks[k].who_has THEN s
            ELSE [s1 EXCEPT !.workers[w].has_what = @ \ {k},
                            !.workers[w].nbytes = @ - get_nbytes(s.tasks[k])]
       ELSE transitions([s1 EXCEPT !.workers[w].has_what = @ \ {k},
                                   !.workers[w].nbytes = @ - get_nbytes(s.tasks[k])],
                        IF s.tasks[k].run_spec THEN <<<<k, "released">>>>
                        ELSE <<<<k, "forgotten">>>>)

\* Scheduler.release_worker_data
release_worker_data(s, keys, w) ==
    LET removed_keys == keys \cap s.workers[w].has_what
    IN IF w \notin Live(s) THEN Raise(s)
       ELSE IF \E k \in keys : ~InTable(s, k) THEN Raise(s)
       ELSE With(Fold(LAMBDA st, k :
                        IF st.s.exc THEN st
                        ELSE IF w \notin st.s.tasks[k].who_has
                        THEN R(Raise([st.s EXCEPT !.workers[w].nbytes =
                                                      @ - get_nbytes(st.s.tasks[k])]),
                               st.r)
                        ELSE R([st.s EXCEPT !.workers[w].nbytes =
                                                @ - get_nbytes(st.s.tasks[k]),
                                            !.tasks[k].who_has = @ \ {w}],
                               IF st.s.tasks[k].who_has = {w}
                               THEN RecSet(st.r, k, "released") ELSE st.r),
                      R([s EXCEPT !.workers[w].has_what = @ \ removed_keys], <<>>),
                      KeySeq(removed_keys)),
                 LAMBDA st2 : transitions(st2.s, st2.r))

\* Scheduler.handle_long_running
handle_long_running(s, k, w, compute_duration) ==
    LET ww == s.tasks[k].processing_on
        old == IF s.task_duration = -1 THEN 0 ELSE s.task_duration
        avg == IF old = 0 THEN compute_duration ELSE (old + compute_duration) \div 2
        s1 == IF compute_duration > 0 THEN [s EXCEPT !.task_duration = avg] ELSE s
    IN IF ~InTable(s, k) THEN Raise(s)
       ELSE IF ww = None THEN s
       ELSE IF k \notin DOMAIN s.workers[ww].processing
       THEN Raise(s1)
       ELSE [s1 EXCEPT !.workers[ww].occupancy = @ - s.workers[ww].processing[k],
                       !.total_occupancy = @ - s.workers[ww].processing[k],
                       !.workers[ww].processing[k] = 0]

\* Scheduler.add_keys
add_keys(s, w, keys) ==
    IF w \notin DOMAIN s.worker_info THEN s
    ELSE Fold(LAMBDA st, k :
                IF st.exc THEN st
                ELSE IF InTable(st, k) /\ st.tasks[k].state = "memory"
                THEN IF k \in st.workers[w].has_what THEN st
                     ELSE [st EXCEPT !.workers[w].nbytes = @ + get_nbytes(st.tasks[k]),
                                     !.workers[w].has_what = @ \cup {k},
                                     !.tasks[k].who_has = @ \cup {w}]
                ELSE worker_send(st, w, "delete-data", k),
              s, KeySeq(keys))

\* Scheduler.reschedule
reschedule(s, k, w) ==
    IF ~InTable(s, k) THEN Raise(s)
    ELSE IF s.tasks[k].state # "processing" THEN s
    ELSE IF s.tasks[k].processing_on = None THEN Raise(s)
    ELSE IF w # None /\ s.tasks[k].processing_on # w THEN s
    ELSE transitions(s, <<<<k, "released">>>>)

\* Scheduler._reevaluate_occupancy_worker
reevaluate_occupancy_worker(s, w) ==
    LET ws == s.workers[w]
        proc == [k \in DOMAIN ws.processing |->
                    get_task_duration(s) + get_comm_cost(s, k, w)]
    IN check_idle_saturated(
           [Fold(LAMBDA st, k : note_unknown_duration(st, k),
                 s, KeySeq(DOMAIN ws.processing))
               EXCEPT !.workers[w].processing = proc,
                      !.workers[w].occupancy = SumValues(proc),
                      !.total_occupancy = @ + SumValues(proc) - ws.occupancy], w)

(***************************************************************************)
(* BatchedSend (distributed/batched.py)                                    *)
(***************************************************************************)

\* The calls of send and of start that a run makes.
MaxSends == 2
MaxStarts == 2

\* BatchedSend.__init__.  Messages are numbered in the order send() got them
\* (message_count); comms and background tasks are numbered in the order
\* start() got or made them, 0 standing for None.  next_deadline is None, a
\* time to come or a time gone by.  running holds, for each background task,
\* where it stands in _background_send and the write it awaits; closer the
\* same for close(), with the task it awaits; closed the comms that are closed; writes every call of
\* comm.write in call order, with its comm, its batch and how it ended.
BatchedInit ==
    [waker |-> FALSE, please_stop |-> FALSE, buffer |-> <<>>, comm |-> 0,
     message_count |-> 0, next_deadline |-> "none", background_task |-> 0,
     running |-> [i \in 1..MaxStarts |-> [pc |-> "none", write |-> 0]],
     closer |-> [pc |-> "none", write |-> 0, task |-> 0],
     closed |-> {}, starts |-> 0, sends |-> 0, writes |-> <<>>]

\* comm.closed() of self.comm
CommOpen(b) == b.comm # 0 /\ b.comm \notin b.closed

\* send() that buffers its messages and leaves the waker as it is.
batched_send_without_wake(b, n) ==
    [b EXCEPT !.message_count = @ + n,
              !.buffer = @ \o [i \in 1..n |-> b.message_count + i],
              !.sends = @ + 1]

\* BatchedSend.send
batched_send(b, n) ==
    [b EXCEPT !.message_count = @ + n,
              !.buffer = @ \o [i \in 1..n |-> b.message_count + i],
              !.waker = (@ \/ (CommOpen(b) /\ b.next_deadline = "none")),
              !.sends = @ + 1]

\* BatchedSend.start with a new comm; an error while the background task runs.
batched_start(b) ==
    IF b.background_task # 0 /\ b.running[b.background_task].pc # "done" THEN b
    ELSE [b EXCEPT !.please_stop = FALSE, !.waker = TRUE, !.next_deadline = "none",
                   !.comm = b.starts + 1, !.background_task = b.starts + 1,
                   !.running[b.starts + 1] = [pc |-> "loop", write |-> 0],
                   !.starts = @ + 1]

\* BatchedSend.abort
batched_abort(b) ==
    [b EXCEPT !.please_stop = TRUE, !.buffer = <<>>, !.waker = TRUE,
              !.closed = IF CommOpen(b) THEN @ \cup {b.comm} ELSE @]

\* comm.write(self.buffer) with the buffer left as it is.
batched_write_keeps_buffer(b) ==
    [b EXCEPT !.writes = Append(@, [comm |-> b.comm, batch |-> b.buffer,
                                    status |-> "in flight"])]

\* payload, self.buffer = self.buffer, [] followed by self.comm.write(payload)
batched_write(b) ==
    [b EXCEPT !.buffer = <<>>,
              !.writes = Append(@, [comm |-> b.comm, batch |-> b.buffer,
                                    status |-> "in flight"])]

\* _background_send, the test of its while loop: the task ends or waits.
background_loop(b, i) ==
    [b EXCEPT !.running[i].pc = IF b.please_stop THEN "done" ELSE "wait"]

\* _background_send from the end of its wait to the next await; woken tells
\* whether the waker ended the wait (and is cleared) or the timeout did.
background_send(b, i, woken) ==
    LET b1 == IF woken THEN [b EXCEPT !.waker = FALSE] ELSE b
    IN IF b1.buffer = <<>>
       THEN background_loop([b1 EXCEPT !.next_deadline = "none"], i)
       ELSE IF b1.next_deadline = "future" THEN background_loop(b1, i)
       ELSE [batched_write(b1) EXCEPT !.next_deadline = "future",
                                      !.running[i] = [pc |-> "write",
                                                      write |-> Len(b1.writes) + 1]]

\* _background_send after comm.write: the loop goes on, or the write raised
\* and the task aborts the BatchedSend and ends.
background_written(b, i, ok) ==
    LET w == b.running[i].write
    IN IF ok
       THEN background_loop([b EXCEPT !.writes[w].status = "written",
                                      !.running[i].write = 0], i)
       ELSE [batched_abort(b) EXCEPT !.writes[w].status = "failed",
                                     !.running[i] = [pc |-> "done", write |-> 0]]

\* BatchedSend.close after the background task has ended: the buffer is
\* written, or the comm is closed at once.
batched_flush(b) ==
    LET b1 == IF b.closer.task # 0 THEN [b EXCEPT !.background_task = 0] ELSE b
    IN IF ~CommOpen(b1) THEN [b1 EXCEPT !.closer = [pc |-> "none", write |-> 0, task |-> 0]]
       ELSE IF b1.buffer = <<>>
       THEN [b1 EXCEPT !.closed = @ \cup {b1.comm},
                       !.closer = [pc |-> "none", write |-> 0, task |-> 0]]
       ELSE [batched_write(b1) EXCEPT !.closer = [pc |-> "write",
                                                  write |-> Len(b1.writes) + 1,
                                                  task |-> 0]]

\* BatchedSend.close up to its first await: it awaits the background task
\* when that is running and goes on at once when there is none or it is done.
batched_close(b) ==
    LET b1 == [b EXCEPT !.please_stop = TRUE, !.waker = TRUE,
                        !.closer.task = b.background_task]
    IN IF b.background_task # 0 /\ b.running[b.background_task].pc # "done"
       THEN [b1 EXCEPT !.closer.pc = "await"]
       ELSE batched_flush(b1)

\* BatchedSend.close after its write: written, CommClosedError (the comm is
\* closed all the same) or another exception, which close() raises.
batched_flushed(b, result) ==
    LET b1 == [b EXCEPT !.writes[b.closer.write].status =
                            IF result = "OK" THEN "written" ELSE "failed",
                        !.closer = [pc |-> "none", write |-> 0, task |-> 0]]
    IN IF result = "Exception" \/ b1.comm = 0 THEN b1
       ELSE [b1 EXCEPT !.closed = @ \cup {b1.comm}]

(***************************************************************************)
(* AdaptiveCore (deploy/adaptive_core.py)                                  *)
(***************************************************************************)

\* The worker tokens of the adaptive loop, and the order in which a set of
\* them is iterated.
AWorkers == {"a1", "a2", "a3", "a4"}
AWorkerSeq == <<"a1", "a2", "a3", "a4">>

\* The ticks of the periodic callback that the model follows, and the
\* largest number target() returns.
MaxTicks == 3
MaxTarget == 4

\* The workers that leave the scheduler without being closed by the loop.
MaxGone == 1

\* maximum: an int or math.inf
Infinity == [inf |-> TRUE, n |-> 0]
Finite(n) == [inf |-> FALSE, n |-> n]

\* list(S) of a set of worker tokens
AList(S) == SelectSeq(AWorkerSeq, LAMBDA w : w \in S)

\* toolz.take(n, S)
Take(n, S) == {AList(S)[i] : i \in {j \in 1..Len(AList(S)) : j <= n}}

\* The recommendations: {"status": "same"}, {"status": "up", "n": n} and
\* {"status": "down", "workers": [...]}.
Same == [status |-> "same", n |-> 0, workers |-> {}]
Up(n) == [status |-> "up", n |-> n, workers |-> {}]
Down(ws) == [status |-> "down", n |-> 0, workers |-> ws]

\* No AdaptiveCore yet. pc is the position of the adapt() coroutine, tries
\* the attempts retry() has left after the present one; ticks records, for
\* every call of adapt() that passed the semaphore, the close candidates
\* (cand) and the workers recommended for closing (down) of its calls of
\* recommendations, and whether each such call saw four planned and observed
\* workers and a target of two (idle4: "yes", "no", or "none" before the
\* first call).
AdaptiveNone ==
    [state |-> "none", periodic_callback |-> "None", callback_running |-> FALSE,
     minimum |-> 0, maximum |-> Infinity, wait_count |-> 3, retry_count |-> 0,
     plan |-> {}, requested |-> {}, observed |-> {},
     close_counts |-> [w \in AWorkers |-> 0], adapting |-> FALSE,
     pc |-> "none", tries |-> 0, rec |-> Same, ticks |-> <<>>, gone |-> 0,
     event |-> "none"]

\* AdaptiveCore.__init__, of a cluster whose plan, requested and observed are
\* the workers it has.
adaptive_init(minimum, maximum, wait_count, interval, retry_count, has) ==
    [AdaptiveNone EXCEPT !.plan = has, !.requested = has, !.observed = has,
                         !.minimum = minimum, !.maximum = maximum,
                         !.wait_count = wait_count, !.retry_count = retry_count,
                         !.periodic_callback = IF interval # 0 THEN "set" ELSE "None",
                         !.state = IF interval # 0 THEN "starting" ELSE "inactive",
                         !.event = "init"]

\* AdaptiveCore._start
adaptive_start(a) ==
    IF a.state # "starting" THEN a
    ELSE [a EXCEPT !.callback_running = TRUE, !.state = "running", !.event = "start"]

\* AdaptiveCore.stop
adaptive_stop(a) ==
    IF a.state \in {"inactive", "stopped"} THEN a
    ELSE [a EXCEPT !.callback_running = IF a.state = "running" THEN FALSE ELSE @,
                   !.periodic_callback = "None", !.state = "stopped", !.event = "stop"]

\* AdaptiveCore.workers_to_close: list(self.observed)[target:]
workers_to_close(a, target) ==
    {AList(a.observed)[i] : i \in {j \in 1..Len(AList(a.observed)) : j > target}}

\* AdaptiveCore.safe_target, of the number n that target() returned
safe_target(a, n) ==
    LET n1 == IF ~a.maximum.inf /\ n > a.maximum.n THEN a.maximum.n ELSE n
    IN IF n1 < a.minimum THEN a.minimum ELSE n1

\* What a call of recommendations adds to the record of the present tick.
Noted(a, target, to_close, firmly_close) ==
    LET k == Len(a.ticks)
    IN [a EXCEPT !.ticks[k].cand = @ \cup to_close,
                 !.ticks[k].down = @ \cup firmly_close,
                 !.ticks[k].idle4 = IF /\ @ # "no"
                                       /\ target = 2
                                       /\ a.plan = AWorkers
                                       /\ a.observed = AWorkers
                                    THEN "yes" ELSE "no"]

\* recommendations whose "up" leaves close_counts as they are.
recommendations_up_keeps_counts(a, target) ==
    LET not_yet_arrived == a.requested \ a.observed
        taken == IF not_yet_arrived # {}
                 THEN Take(Cardinality(a.plan) - target, not_yet_arrived) ELSE {}
        to_close == IF target < Cardinality(a.plan) - Cardinality(taken)
                    THEN taken \cup workers_to_close(a, target) ELSE taken
        counts == [w \in AWorkers |-> IF w \in to_close THEN a.close_counts[w] + 1
                                      ELSE a.close_counts[w]]
        firmly_close == {w \in to_close : counts[w] >= a.wait_count}
        kept == [w \in AWorkers |-> IF w \in firmly_close \/ w \notin to_close
                                    THEN 0 ELSE counts[w]]
    IN IF target = Cardinality(a.plan)
       THEN R([Noted(a, target, {}, {}) EXCEPT !.close_counts = [w \in AWorkers |-> 0]],
              Same)
       ELSE IF target > Cardinality(a.plan)
       THEN R(Noted(a, target, {}, {}), Up(target))
       ELSE R([Noted(a, target, to_close, firmly_close) EXCEPT !.close_counts = kept],
              IF firmly_close # {} THEN Down(firmly_close) ELSE Same)

\* AdaptiveCore.recommendations. A close count of 0 is a worker without an
\* entry in close_counts.
recommendations(a, target) ==
    LET none == [w \in AWorkers |-> 0]
        not_yet_arrived == a.requested \ a.observed
        taken == IF not_yet_arrived # {}
                 THEN Take(Cardinality(a.plan) - target, not_yet_arrived) ELSE {}
        to_close == IF target < Cardinality(a.plan) - Cardinality(taken)
                    THEN taken \cup workers_to_close(a, target) ELSE taken
        counts == [w \in AWorkers |-> IF w \in to_close THEN a.close_counts[w] + 1
                                      ELSE a.close_counts[w]]
        firmly_close == {w \in to_close : counts[w] >= a.wait_count}
        kept == [w \in AWorkers |-> IF w \in firmly_close \/ w \notin to_close
                                    THEN 0 ELSE counts[w]]
    IN IF target = Cardinality(a.plan)
       THEN R([Noted(a, target, {}, {}) EXCEPT !.close_counts = none], Same)
       ELSE IF target > Cardinality(a.plan)
       THEN R([Noted(a, target, {}, {}) EXCEPT !.close_counts = none], Up(target))
       ELSE R([Noted(a, target, to_close, firmly_close) EXCEPT !.close_counts = kept],
              IF firmly_close # {} THEN Down(firmly_close) ELSE Same)

\* adapt() from its call to the first await of _adapt_once, the call of
\* target(): the semaphore, and retry() with count attempts after the first.
adapt(a) ==
    IF a.adapting THEN [a EXCEPT !.event = "overlap"]
    ELSE [a EXCEPT !.adapting = TRUE, !.tries = a.retry_count, !.pc = "target",
                   !.ticks = Append(@, [cand |-> {}, down |-> {}, idle4 |-> "none"]),
                   !.event = "tick"]

\* _adapt_once returned: adapt() leaves through its finally clause.
adapt_returned(a) ==
    [a EXCEPT !.adapting = FALSE, !.pc = "none", !.event = "done"]

\* _adapt_once raised: retry() calls it again while it has attempts left,
\* and else the exception leaves adapt() through its finally clause, to the
\* _adapt of __init__ and to the periodic callback.
adapt_raised(a) ==
    IF a.tries > 0
    THEN [a EXCEPT !.tries = @ - 1, !.pc = "target", !.event = "retry"]
    ELSE [a EXCEPT !.adapting = FALSE, !.pc = "none", !.event = "failed"]

\* _adapt_once from the answer of target() to its next await: target()
\* returned n, or raised.
adapt_once(a, n, ok) ==
    IF ~ok THEN adapt_raised(a)
    ELSE LET r == recommendations(a, safe_target(a, n))
         IN IF r.r.status = "same" THEN adapt_returned(r.s)
            ELSE [r.s EXCEPT !.pc = "scale", !.rec = r.r, !.event = r.r.status]

\* scale_up(n) of the cluster: it plans and requests the workers new.
scale_up(a, new) ==
    [a EXCEPT !.plan = @ \cup new, !.requested = @ \cup new]

\* scale_down(workers) of the cluster: it closes the workers, which leave
\* the scheduler.
scale_down(a, ws) ==
    [a EXCEPT !.plan = @ \ ws, !.requested = @ \ ws, !.observed = @ \ ws]

\* _adapt_once after scale_up or scale_down returned or raised
adapt_scaled(a, ok, new) ==
    IF ~ok THEN adapt_raised(a)
    ELSE IF a.rec.status = "up" THEN adapt_returned(scale_up(a, new))
    ELSE adapt_returned(scale_down(a, a.rec.workers))

(***************************************************************************)
(* The state machine                                                       *)
(***************************************************************************)

VARIABLES
    tasks,              \* Scheduler.tasks: key -> TaskState
    workers,            \* Scheduler.workers: address -> WorkerState
    clients,            \* Scheduler.clients: client id -> wants_what
    client_comms,       \* Scheduler.client_comms (the clients with a stream)
    unrunnable,         \* Scheduler.unrunnable
    total_ncores,       \* Scheduler.total_ncores
    total_occupancy,    \* Scheduler.total_occupancy
    worker_info,        \* Scheduler.worker_info
    worker_comms,       \* Scheduler.worker_comms (the addresses with a stream)
    aliases,            \* Scheduler.aliases: name -> address
    resources,          \* Scheduler.resources[resource]: address -> quantity
    idle,               \* Scheduler.idle
    host_info,          \* Scheduler.host_info
    task_duration,      \* Scheduler.task_duration[prefix], -1 while unknown
    unknown_durations,  \* Scheduler.unknown_durations[prefix]
    assigned,           \* compute-task messages a worker may still answer
    removed,            \* the workers removed and not registered again since
    stimuli,            \* the number of stimuli handled so far
    pending,            \* the gather, rebalance or replicate call in flight
    timers,             \* the cancel_key callbacks on the loop, in the order they fire
    last,               \* the stimulus handled last, whether it raised, and the
                        \* changes of state it made
    batched,            \* a BatchedSend, its coroutines and its comms (batched.py)
    adaptive            \* an AdaptiveCore and its adapt() coroutine (adaptive_core.py)

scheduler_vars ==
    <<tasks, workers, clients, client_comms, unrunnable, total_ncores, total_occupancy,
      worker_info, worker_comms, aliases, resources, idle, host_info,
      task_duration, unknown_durations, assigned, removed, stimuli, pending, timers, last>>

vars == <<scheduler_vars, batched, adaptive>>

\* The scheduler state a handler starts from; tie is the iteration order of
\* a set of workers for this stimulus, rev tells whether a set of keys is
\* iterated in reverse.
Cur(tie) ==
    [tasks |-> tasks, workers |-> workers, clients |-> clients,
     client_comms |-> client_comms,
     unrunnable |-> unrunnable, total_ncores |-> total_ncores,
     total_occupancy |-> total_occupancy, worker_info |-> worker_info,
     worker_comms |-> worker_comms, aliases |-> aliases, resources |-> resources,
     idle |-> idle, host_info |-> host_info, task_duration |-> task_duration,
     unknown_durations |-> unknown_durations, assigned |-> assigned,
     removed |-> removed, timers |-> timers, exc |-> FALSE, tie |-> tie, rev |-> FALSE, changes |-> {},
     sent |-> {}]

\* The locals of a coroutine that waits for workers to answer: the moves or
\* copies it planned, its keys, the replication count and its workers.
NoCall == [op |-> "none", plan |-> <<>>, keys |-> {}, n |-> 0, workers |-> {},
           asked |-> {}, round |-> 0, retiring |-> {}]
Call(op, plan, keys, n, ws) ==
    [op |-> op, plan |-> plan, keys |-> keys, n |-> n, workers |-> ws, asked |-> {},
     round |-> 0, retiring |-> {}]

\* The WorkerState objects a rebalance or replicate call holds on to.
Held(call) ==
    IF call.op = "gather" THEN {}
    ELSE call.workers \cup {call.plan[i][1] : i \in 1..Len(call.plan)}
                      \cup {call.plan[i][2] : i \in 1..Len(call.plan)}
                      \cup call.retiring

\* The WorkerState objects that are registered or that a task, the idle set
\* or a call in flight still refers to.
Referenced(s, call) ==
    Live(s) \cup s.idle
        \cup UNION {s.tasks[k].who_has : k \in Keys}
        \cup ({s.tasks[k].processing_on : k \in Keys} \ {None})
        \cup (Held(call) \cap DOMAIN s.workers)

\* The number of stimuli a run delivers.
MaxStimuli == 8

\* The state a handler leaves behind, and the call it leaves in flight.
Effect(s, op, call) ==
    /\ pending' = call
    /\ tasks' = s.tasks
    /\ workers' = [w \in Referenced(s, call) |-> s.workers[w]]
    /\ clients' = s.clients
    /\ client_comms' = s.client_comms
    /\ unrunnable' = s.unrunnable
    /\ total_ncores' = s.total_ncores
    /\ total_occupancy' = s.total_occupancy
    /\ worker_info' = s.worker_info
    /\ worker_comms' = s.worker_comms
    /\ aliases' = s.aliases
    /\ resources' = s.resources
    /\ idle' = s.idle
    /\ host_info' = s.host_info
    /\ task_duration' = s.task_duration
    /\ unknown_durations' = s.unknown_durations
    /\ assigned' = s.assigned
    /\ removed' = s.removed
    /\ timers' = s.timers
    /\ last' = [op |-> op, exc |-> s.exc, changes |-> s.changes]
    /\ UNCHANGED <<batched, adaptive>>

\* A stimulus from outside (a client, a worker that comes or goes) is
\* counted; the model follows MaxStimuli of them.
Proceed(s, op, call) ==
    /\ stimuli < MaxStimuli
    /\ stimuli' = stimuli + 1
    /\ Effect(s, op, call)

Install(s, op) == Proceed(s, op, pending)

\* The answer of a worker to a compute-task message it holds is not counted:
\* there is at most one answer per message.
Answer(s, op) == Effect(s, op, pending) /\ UNCHANGED stimuli

\* The same for a handler that returns its state with the call it starts.
ProceedR(r, op) == Proceed(r.s, op, r.r)

Ties == {<<"w1", "w2">>, <<"w2", "w1">>}

\* The addresses in Scheduler.workers.
Registered == {w \in DOMAIN workers : workers[w].live}

\* Scheduler.__init__
Init ==
    /\ tasks = [k \in Keys |-> NoTask]
    /\ workers = EmptyMap
    /\ clients = [c \in {"fire-and-forget"} |-> {}]
    /\ client_comms = {}
    /\ unrunnable = {}
    /\ total_ncores = 0
    /\ total_occupancy = 0
    /\ worker_info = EmptyMap
    /\ worker_comms = {}
    /\ aliases = EmptyMap
    /\ resources = EmptyMap
    /\ idle = {}
    /\ host_info = EmptyMap
    /\ task_duration = -1
    /\ unknown_durations = {}
    /\ assigned = {}
    /\ removed = {}
    /\ stimuli = 0
    /\ pending = NoCall
    /\ timers = <<>>
    /\ last = [op |-> "init", exc |-> FALSE, changes |-> {}]
    /\ batched = BatchedInit
    /\ adaptive = AdaptiveNone

\* handle_worker: a message on the worker's stream is dispatched while the
\* worker is known; a handler that raises ends the stream, and the worker is
\* removed.
StreamOpen(w) == w \in DOMAIN worker_info /\ w \in worker_comms

\* A worker process that is gone answers no compute-task any more.
Forget(s, w) == [s EXCEPT !.assigned = {p \in @ : p[2] # w}]

handle_worker(s, w) ==
    IF ~s.exc THEN s
    ELSE IF w \in s.worker_comms
    THEN [Forget(remove_worker([s EXCEPT !.exc = FALSE], w, FALSE), w)
             EXCEPT !.exc = TRUE]
    ELSE s

(***************************************************************************)
(* Data movement: gather, rebalance, replicate                             *)
(***************************************************************************)

\* A set of workers in this stimulus's iteration order.
TieSeq(s, S) == SortedSeq(S, s.tie)

\* sorted(..., key=..., reverse=True): descending and stable.
InsertDesc(seq, e, key) ==
    LET n == Cardinality({i \in 1..Len(seq) : key[seq[i]] >= key[e]})
    IN SubSeq(seq, 1, n) \o <<e>> \o SubSeq(seq, n + 1, Len(seq))
SortDesc(seq, key) == Fold(LAMBDA acc, e : InsertDesc(acc, e, key), <<>>, seq)

\* Scheduler.gather up to the yield: the addresses of the key's holders.
gather_who_has(s, k) == IF InTable(s, k) THEN s.tasks[k].who_has ELSE {}

\* Scheduler.gather after gather_from_workers found the key on none of its
\* holders; missing_workers are the holders that did not answer.
gather_missing(s, k, holders, missing_workers) ==
    With(Fold(LAMBDA st, w :
                IF st.exc THEN st ELSE Forget(remove_worker(st, w, FALSE), w),
              s, TieSeq(s, missing_workers)),
         LAMBDA s1 :
             IF s1.exc \/ holders = {} THEN s1
             ELSE IF ~InTable(s1, k) THEN Raise(s1)
             ELSE Fold(LAMBDA st, w :
                         IF st.exc \/ w \notin Live(st)
                            \/ k \notin st.workers[w].has_what
                         THEN st
                         ELSE IF w \notin st.tasks[k].who_has
                         THEN Raise([st EXCEPT !.workers[w].has_what = @ \ {k}])
                         ELSE transitions(
                                  [st EXCEPT !.workers[w].has_what = @ \ {k},
                                             !.tasks[k].who_has = @ \ {w},
                                             !.workers[w].nbytes =
                                                 @ - get_nbytes(st.tasks[k])],
                                  <<<<k, "released">>>>),
                       s1, TieSeq(s, holders)))

\* tasks_by_worker in rebalance
HeldBy(s, w) == {k \in Keys : InTable(s, k) /\ w \in s.tasks[k].who_has}

TaskBytes(s) == [k \in Keys |-> get_nbytes(s.tasks[k])]

\* The loop of rebalance for one sender: p holds worker_bytes, the
\* recipients' planned tasks, the moves so far and the recipients iterator.
RECURSIVE rebalance_sender(_, _, _, _, _, _)
rebalance_sender(s, sorted, total, p, sender, keys) ==
    LET n == Len(sorted)
        recipient == sorted[n + 1 - p.ri]
    IN IF ~(n * p.wb[sender] > total) THEN p
       ELSE IF n * p.wb[recipient] < total
       THEN IF keys = <<>> THEN [p EXCEPT !.stop = TRUE]
            ELSE LET k == keys[1]
                     nb == get_nbytes(s.tasks[k])
                     p1 == IF k \in p.tbw[recipient] THEN p
                           ELSE [p EXCEPT !.tbw[recipient] = @ \cup {k},
                                          !.msgs = Append(@, <<sender, recipient, k>>),
                                          !.wb[sender] = @ - nb,
                                          !.wb[recipient] = @ + nb]
                 IN rebalance_sender(s, sorted, total, p1, sender, Tail(keys))
       ELSE IF p.ri = n THEN [p EXCEPT !.stop = TRUE]
       ELSE rebalance_sender(s, sorted, total, [p EXCEPT !.ri = @ + 1], sender, keys)

\* Scheduler.rebalance up to the first yield: the moves (sender, recipient, key)
\* among the tasks sel and the workers ws.
rebalance_msgs(s, sel, ws) ==
    LET wb == [w \in ws |-> SumOver(TaskBytes(s), HeldBy(s, w) \cap sel)]
        sorted == SortDesc(TieSeq(s, ws), wb)
        p0 == [wb |-> wb, tbw |-> [w \in ws |-> HeldBy(s, w) \cap sel], msgs |-> <<>>,
               ri |-> 1, stop |-> FALSE]
    IN Fold(LAMBDA p, sender :
              IF p.stop THEN p
              ELSE rebalance_sender(s, sorted, SumValues(wb), p, sender,
                                    SortDesc(KeySeq(HeldBy(s, sender) \cap sel),
                                             TaskBytes(s))),
            p0, SubSeq(sorted, 1, Len(sorted) \div 2)).msgs

\* Scheduler.rebalance to its first yield; an empty set of keys or of workers
\* stands for all tasks or all workers, as None and [] do in the code.
rebalance(s, keys, among) ==
    LET sel == IF keys # {} THEN keys ELSE {k \in Keys : InTable(s, k)}
        ws == IF among # {} THEN among ELSE Live(s)
    IN IF \E k \in keys : ~InTable(s, k) THEN R(Raise(s), NoCall)
       ELSE IF \E k \in keys : s.tasks[k].who_has = {} THEN R(s, NoCall)
       ELSE IF ~(among \subseteq Live(s)) THEN R(Raise(s), NoCall)
       ELSE IF among = {} /\ \E k \in sel : ~(s.tasks[k].who_has \subseteq Live(s))
       THEN R(Raise(s), NoCall)
       ELSE IF ws = {} THEN R(Raise(s), NoCall)
       ELSE With(rebalance_msgs(s, sel, ws),
                 LAMBDA msgs : IF msgs = <<>> THEN R(s, NoCall)
                               ELSE R(s, Call("rebalance-gather", msgs, {}, 0, {})))

\* rebalance that goes on as if every gather had been confirmed.
rebalance_answered_goes_on(s, msgs, ok) ==
    LET s1 == Fold(LAMBDA st, m :
                     [st EXCEPT !.tasks[m[3]].who_has = @ \cup {m[2]},
                                !.workers[m[2]].has_what = @ \cup {m[3]}],
                   s, msgs)
    IN R(s1, Call("rebalance-delete", msgs, {}, 0, {}))

\* rebalance after the recipients have gathered the keys.
rebalance_gathered(s, msgs) ==
    LET s1 == Fold(LAMBDA st, m :
                     IF st.exc THEN st
                     ELSE IF st.tasks[m[3]].state # "memory" THEN Raise(st)
                     ELSE [st EXCEPT !.tasks[m[3]].who_has = @ \cup {m[2]},
                                     !.workers[m[2]].has_what = @ \cup {m[3]},
                                     !.workers[m[2]].nbytes =
                                         @ + get_nbytes(st.tasks[m[3]])],
                   s, msgs)
    IN IF s1.exc THEN R(s1, NoCall)
       ELSE R(s1, Call("rebalance-delete", msgs, {}, 0, {}))

\* rebalance after the answers to the gathers, whether all of them were OK:
\* if not, it returns missing-data and goes no further.
rebalance_answered(s, msgs, ok) ==
    IF ok THEN rebalance_gathered(s, msgs) ELSE R(s, NoCall)

\* rebalance after the senders have deleted the keys.
rebalance_deleted(s, msgs) ==
    Fold(LAMBDA st, m :
           IF st.exc THEN st
           ELSE IF m[1] \notin st.tasks[m[3]].who_has
           THEN Raise(st)
           ELSE IF m[3] \notin st.workers[m[1]].has_what
           THEN Raise([st EXCEPT !.tasks[m[3]].who_has = @ \ {m[1]}])
           ELSE [st EXCEPT !.tasks[m[3]].who_has = @ \ {m[1]},
                           !.workers[m[1]].has_what = @ \ {m[3]},
                           !.workers[m[1]].nbytes = @ - get_nbytes(st.tasks[m[3]])],
         s, msgs)

\* The branching factor of replicate (its default).
BranchingFactor == 2

Min(a, b) == IF a < b THEN a ELSE b

\* How many more copies of k replicate asks for in this round.
ReplicateCount(s, k, n, ws) ==
    Min(n - Cardinality(s.tasks[k].who_has \cap ws),
        BranchingFactor * Cardinality(s.tasks[k].who_has))

\* random.sample(workers - ts.who_has, count): the sets replicate may pick.
ReplicateTargets(s, k, n, ws) ==
    IF n - Cardinality(s.tasks[k].who_has \cap ws) <= 0 THEN {{}}
    ELSE IF ReplicateCount(s, k, n, ws) <= 0 THEN {{}}
    ELSE {T \in SUBSET (ws \ s.tasks[k].who_has) :
              Cardinality(T) = ReplicateCount(s, k, n, ws)}

\* The choices of random.sample for each key of a set.
ReplicateChoices(choices) ==
    {f \in [DOMAIN choices -> SUBSET Workers] :
         \A k \in DOMAIN choices : f[k] \in choices[k]}

\* The pairs (worker, key) of the messages of one yield, for the workers
\* picked[k] of each key.
ReplicatePlan(keys, picked) ==
    Fold(LAMBDA plan, k :
           plan \o [i \in 1..Len(WorkerSeq(picked[k])) |-> <<WorkerSeq(picked[k])[i], k>>],
         <<>>, KeySeq(keys))

\* One round of the copy loop of replicate, to its yield: todo are the keys
\* still in the local set tasks, asked the keys of the call.
replicate_round(s, todo, asked, n, ws, targets) ==
    LET remaining == {k \in todo : n - Cardinality(s.tasks[k].who_has \cap ws) > 0}
    IN IF s.exc THEN R(s, NoCall)
       ELSE IF remaining = {} THEN R(s, NoCall)
       ELSE IF \E k \in remaining : ReplicateCount(s, k, n, ws) <= 0
       THEN R(Raise(s), NoCall)
       ELSE R(s, [Call("replicate-gather", ReplicatePlan(remaining, targets),
                       remaining, n, ws) EXCEPT !.asked = asked])

\* random.sample(del_candidates, len(del_candidates) - n)
ReplicateDeletes(s, k, n0) ==
    LET n == Min(n0, Cardinality(Live(s)))
        candidates == s.tasks[k].who_has \cap Live(s)
    IN IF Cardinality(candidates) > n
       THEN {D \in SUBSET candidates : Cardinality(D) = Cardinality(candidates) - n}
       ELSE {{}}

\* Scheduler.replicate of keys on all workers, to its first yield.
replicate(s, keys, n0, deletes, targets) ==
    LET ws == Live(s)
        n == Min(n0, Cardinality(ws))
    IN IF n = 0 \/ \E k \in keys : ~InTable(s, k) THEN R(Raise(s), NoCall)
       ELSE IF \E k \in keys : s.tasks[k].who_has = {} THEN R(s, NoCall)
       ELSE IF \E k \in keys : deletes[k] # {}
       THEN R(s, [Call("replicate-delete", ReplicatePlan(keys, deletes), keys, n, ws)
                     EXCEPT !.asked = keys])
       ELSE replicate_round(s, keys, keys, n, ws, targets)

\* replicate after the workers have deleted their copies.
replicate_deleted(s, call) ==
    Fold(LAMBDA st, m :
           IF st.exc THEN st
           ELSE LET sa == [st EXCEPT !.workers[m[1]].has_what = @ \ {m[2]}]
                IN IF m[1] \notin sa.tasks[m[2]].who_has THEN Raise(sa)
                   ELSE [sa EXCEPT !.tasks[m[2]].who_has = @ \ {m[1]},
                                   !.workers[m[1]].nbytes =
                                       @ - get_nbytes(sa.tasks[m[2]])],
         s, call.plan)

\* replicate after the gathers have answered; ok are the workers that got
\* their copy.
replicate_gathered(s, call, ok) ==
    Fold(LAMBDA st, m :
           IF st.exc \/ m[1] \notin ok THEN st ELSE add_keys(st, m[1], {m[2]}),
         s, call.plan)

\* retire_workers: the keys orphaned by retiring the workers W.
Orphans(s, W) ==
    {k \in UNION {s.workers[w].has_what : w \in W} : s.tasks[k].who_has \subseteq W}

\* retire_workers, its end: remove_worker(address=w, safe=True) for each of W.
retire_remove(s, W) ==
    Fold(LAMBDA st, w : IF st.exc THEN st ELSE Forget(remove_worker(st, w, TRUE), w),
         s, TieSeq(s, W))

\* retire_workers after a part r of its replicate(keys, workers=others, n=1,
\* delete=False): replicate awaits its gathers, has raised, or has returned.
retire_continue(s, W, r) ==
    IF r.r # NoCall THEN R(r.s, [r.r EXCEPT !.op = "retire-gather", !.retiring = W])
    ELSE IF r.s.exc THEN R(r.s, NoCall)
    ELSE R(retire_remove(r.s, W), NoCall)

\* Scheduler.retire_workers(workers=W) to its first yield, or to its end.
retire_workers(s, W, targets) ==
    LET keys == Orphans(s, W)
        others == Live(s) \ W
    IN IF ~(W \subseteq Live(s)) THEN R(Raise(s), NoCall)
       ELSE IF keys = {} THEN R(retire_remove(s, W), NoCall)
       ELSE IF others = {} THEN R(s, NoCall)
       ELSE IF \E k \in keys : s.tasks[k].who_has = {}
       THEN R(retire_remove(s, W), NoCall)
       ELSE retire_continue(s, W, replicate_round(s, keys, keys, 1, others, targets))

\* retire_workers after the gathers of a round of its replicate have answered.
retire_gathered(s, call, ok, targets) ==
    With(retire_continue(s, call.retiring,
                         replicate_round(replicate_gathered(s, call, ok), call.keys,
                                         call.asked, call.n, call.workers, targets)),
         LAMBDA r : IF r.r = NoCall THEN r
                    ELSE R(r.s, [r.r EXCEPT !.round = 1 - call.round]))

MaxSuspicious == 2

NbytesValues == 1..MaxNbytes
DurationValues == 1..MaxDuration

\* A worker registers (RPC register); for a known address this is a heartbeat.
Register(w, name, q) ==
    /\ w \in DOMAIN workers => w \in Registered
    /\ \E tie \in Ties :
           Install(add_worker(Cur(tie), w, name, q, <<>>),
                   IF w \in Registered THEN "heartbeat" ELSE "register")

\* A worker registers and reports a key it already holds.
RegisterWithData(w, k, nb) ==
    /\ w \notin DOMAIN workers
    /\ \E tie \in Ties :
           Install(add_worker(Cur(tie), w, None, -1, [j \in {k} |-> nb]), "register")

\* A worker leaves or its stream breaks (RPC unregister, or the end of
\* handle_worker).
Unregister(w) ==
    /\ w \in Registered
    /\ \A k \in DOMAIN workers[w].processing : tasks[k].suspicious < MaxSuspicious
    /\ \E tie \in Ties :
           Install(Forget(remove_worker(Cur(tie), w, FALSE), w), "remove_worker")

\* A worker is retired: retire_workers and close_worker remove it with safe=True.
Retire(w) ==
    /\ w \in Registered
    /\ \E tie \in Ties :
           Install(Forget(remove_worker(Cur(tie), w, TRUE), w), "retire_workers")

\* Worker stream: task-finished
TaskFinished(w, k, nb, d) ==
    /\ StreamOpen(w)
    /\ <<k, w>> \in assigned
    /\ \E tie \in Ties :
           LET s0 == [Cur(tie) EXCEPT !.assigned = @ \ {<<k, w>>}]
           IN Install(handle_worker(handle_task_finished(s0, k, w, nb, d), w),
                      "task-finished")

\* Worker stream: task-finished, as the answer the worker owes for a
\* compute-task message.
Finished(w, k) ==
    /\ StreamOpen(w)
    /\ <<k, w>> \in assigned
    /\ \E tie \in Ties :
           LET s0 == [Cur(tie) EXCEPT !.assigned = @ \ {<<k, w>>}]
           IN Answer(handle_worker(handle_task_finished(s0, k, w, DefaultDataSize,
                                                        DefaultDuration), w),
                     "task-finished")

\* Worker stream: task-erred
TaskErred(w, k) ==
    /\ StreamOpen(w)
    /\ <<k, w>> \in assigned
    /\ \E tie \in Ties :
           LET s0 == [Cur(tie) EXCEPT !.assigned = @ \ {<<k, w>>}]
           IN Install(handle_worker(handle_task_erred(s0, k, w), w), "task-erred")

\* Worker stream: task-erred from a worker on which the task is not (or no
\* longer) processing: the report of an execution that was released.
LateErred(w, k) == tasks[k].processing_on # w /\ TaskErred(w, k)

\* Worker stream: reschedule
Reschedule(w, k) ==
    /\ StreamOpen(w)
    /\ <<k, w>> \in assigned
    /\ \E tie \in Ties :
           LET s0 == [Cur(tie) EXCEPT !.assigned = @ \ {<<k, w>>}]
           IN Install(handle_worker(reschedule(s0, k, w), w), "reschedule")

\* Worker stream: long-running
LongRunning(w, k, d) ==
    /\ StreamOpen(w)
    /\ <<k, w>> \in assigned
    /\ \E tie \in Ties :
           Install(handle_worker(handle_long_running(Cur(tie), k, w, d), w),
                   "long-running")

\* Worker stream: add-keys
AddKeys(w, k) ==
    /\ StreamOpen(w)
    /\ \E tie \in Ties :
           Install(handle_worker(add_keys(Cur(tie), w, {k}), w), "add-keys")

\* Worker stream: missing-data
MissingData(w, k, errant) ==
    /\ StreamOpen(w)
    /\ \E tie \in Ties :
           Install(handle_worker(handle_missing_data(Cur(tie), k, errant), w),
                   "missing-data")

\* Worker stream: release-worker-data
ReleaseWorkerData(w, k) ==
    /\ StreamOpen(w)
    /\ \E tie \in Ties :
           Install(handle_worker(release_worker_data(Cur(tie), {k}, w), w),
                   "release-worker-data")

\* Worker stream: release, of a key that the worker was given, with the
\* cause that the worker names (None: no cause)
ReleaseData(w, k, cause) ==
    /\ StreamOpen(w)
    /\ <<k, w>> \in assigned
    /\ \E tie \in Ties :
           Install(handle_worker(handle_release_data(Cur(tie), k, w, cause), w),
                   "release")

\* Periodic callback reevaluate_occupancy, one worker.
Reevaluate(w) ==
    /\ w \in Registered
    /\ Install(reevaluate_occupancy_worker(Cur(<<>>), w), "reevaluate")

\* RPC set_resources
SetResources(w, q) ==
    /\ q \in 0..MaxResource
    /\ Install(add_resources(Cur(<<>>), w, q), "set_resources")

\* RPC register-client
AddClient(c) ==
    /\ c \in Clients
    /\ Install(add_client(Cur(<<>>), c), "add_client")

\* handle_client after a message of client c is handled: a handler that
\* raises ends the stream, past the call of remove_client.
handle_client(s, c) ==
    IF s.exc THEN [s EXCEPT !.client_comms = @ \ {c}] ELSE s

\* The end of a client's stream (handle_client, then the end of add_client):
\* the connection is lost or the client sends close-stream.
ClientStreamEnd(c) ==
    /\ c \in client_comms
    /\ \E tie \in Ties :
           Install([remove_client(Cur(tie), c) EXCEPT !.client_comms = @ \ {c}],
                   "remove_client")

\* Client stream: update-graph
UpdateGraph(c, ts, keys, o) ==
    /\ c \in client_comms
    /\ \E tie \in Ties, rev \in BOOLEAN :
           Install(handle_client(update_graph([Cur(tie) EXCEPT !.rev = rev],
                                              c, ts, keys, o), c),
                   "update_graph")

\* Client stream: client-desires-keys
ClientDesires(c, keys) ==
    /\ c \in client_comms
    /\ Install(handle_client(client_desires_keys(Cur(<<>>), keys, c), c),
               "client_desires_keys")

\* Client stream: client-releases-keys
ClientReleases(c, keys) ==
    /\ c \in client_comms
    /\ \E tie \in Ties :
           Install(handle_client(client_releases_keys(Cur(tie), keys, c), c),
                   "client_releases_keys")

\* The number of cancel_key callbacks the model keeps on the loop.
MaxTimers == 1

\* RPC cancel
Cancel(c, keys, force) ==
    /\ c \in DOMAIN clients
    /\ \E tie \in Ties :
           LET s1 == stimulus_cancel(Cur(tie), keys, c, force)
           IN /\ Len(s1.timers) <= MaxTimers
              /\ Install(s1, "cancel")

\* The loop runs the oldest cancel_key callback; all of them were put on
\* it with the same delay.  A callback is not a stimulus from outside, and
\* there are at most CancelRetries of them for each key of a call.
CancelRetry ==
    /\ timers # <<>>
    /\ \E tie \in Ties :
           Answer(cancel_key([Cur(tie) EXCEPT !.timers = Tail(timers)],
                             timers[1][1], timers[1][2], timers[1][3], FALSE),
                  "cancel_key")

\* RPC update_data, also the end of scatter: data was put on workers that
\* were registered when the caller looked.
UpdateData(c, k, ws, nb) ==
    /\ c \in DOMAIN clients
    /\ \A i \in 1..Len(ws) : ws[i] \in Registered \cup removed
    /\ Install(update_data(Cur(<<>>), [j \in {k} |-> ws], [j \in {k} |-> nb], c),
               "update_data")

\* Client stream: update-data
ClientUpdateData(c, k, ws, nb) ==
    /\ c \in client_comms
    /\ \A i \in 1..Len(ws) : ws[i] \in Registered \cup removed
    /\ Install(handle_client(update_data(Cur(<<>>), [j \in {k} |-> ws],
                                         [j \in {k} |-> nb], c), c),
               "update-data")

\* RPC gather, to its yield.
Gather(k) ==
    /\ pending.op = "none"
    /\ gather_who_has(Cur(<<>>), k) # {}
    /\ Proceed(Cur(<<>>), "gather",
               Call("gather", <<>>, {k}, 0, gather_who_has(Cur(<<>>), k)))

\* gather_from_workers got the key from one of its holders.
GatherDone ==
    /\ pending.op = "gather"
    /\ Proceed(Cur(<<>>), "gather-ok", NoCall)

\* gather_from_workers found the key on none of its holders: each of them
\* did not answer or answered without the key.
GatherFailed(missing_workers) ==
    /\ pending.op = "gather"
    /\ missing_workers \subseteq pending.workers
    /\ \E tie \in Ties, k \in pending.keys :
           Proceed(gather_missing(Cur(tie), k, pending.workers, missing_workers),
                   "gather-failed", NoCall)

\* RPC rebalance, to its first yield.
Rebalance(keys, ws) ==
    /\ pending.op = "none"
    /\ \E tie \in Ties :
           ProceedR(rebalance(Cur(tie), keys, ws), "rebalance")

\* rebalance: the recipients have gathered the keys.
RebalanceGathered ==
    /\ pending.op = "rebalance-gather"
    /\ ProceedR(rebalance_gathered(Cur(<<>>), pending.plan), "rebalance-gathered")

\* rebalance: the senders have deleted the keys.
RebalanceDeleted ==
    /\ pending.op = "rebalance-delete"
    /\ Proceed(rebalance_deleted(Cur(<<>>), pending.plan), "rebalance-deleted", NoCall)

\* rebalance: the answer of a recipient to its gather is not OK.
RebalanceRefused ==
    /\ pending.op = "rebalance-gather"
    /\ ProceedR(rebalance_answered(Cur(<<>>), pending.plan, FALSE),
                "rebalance-missing-data")

\* rebalance: a recipient or a sender did not answer at all.
RebalanceFailed ==
    /\ pending.op \in {"rebalance-gather", "rebalance-delete"}
    /\ Proceed(Cur(<<>>), "rebalance-failed", NoCall)

\* RPC replicate, to its first yield.
Replicate(K, n) ==
    /\ pending.op = "none"
    /\ \E deletes \in ReplicateChoices([k \in K |-> ReplicateDeletes(Cur(<<>>), k, n)]) :
       \E targets \in ReplicateChoices([k \in K |->
                         ReplicateTargets(Cur(<<>>), k, Min(n, Cardinality(Registered)),
                                          Registered)]) :
           ProceedR(replicate(Cur(<<>>), K, n, deletes, targets), "replicate")

\* replicate: the workers have deleted their copies; the copy loop starts.
ReplicateDeleted ==
    /\ pending.op = "replicate-delete"
    /\ LET s1 == replicate_deleted(Cur(<<>>), pending)
       IN \E targets \in ReplicateChoices([k \in pending.keys |->
                           ReplicateTargets(s1, k, pending.n, pending.workers)]) :
              ProceedR(replicate_round(s1, pending.keys, pending.asked, pending.n,
                                       pending.workers, targets),
                       "replicate-deleted")

\* replicate: the gathers of one round have answered.
ReplicateGathered(ok) ==
    /\ pending.op = "replicate-gather"
    /\ ok \subseteq {pending.plan[i][1] : i \in 1..Len(pending.plan)}
    /\ LET s1 == replicate_gathered(Cur(<<>>), pending, ok)
       IN \E targets \in ReplicateChoices([k \in pending.keys |->
                           ReplicateTargets(s1, k, pending.n, pending.workers)]) :
              ProceedR(replicate_round(s1, pending.keys, pending.asked, pending.n,
                                       pending.workers, targets),
                       "replicate-gathered")

\* replicate: the gathers of one round have answered, as a step of the call
\* in flight and not a stimulus of its own; round tells the rounds of the
\* copy loop apart (even and odd).
ReplicateRound(ok) ==
    /\ pending.op = "replicate-gather"
    /\ ok \subseteq {pending.plan[i][1] : i \in 1..Len(pending.plan)}
    /\ LET s1 == replicate_gathered(Cur(<<>>), pending, ok)
       IN \E targets \in ReplicateChoices([k \in pending.keys |->
                           ReplicateTargets(s1, k, pending.n, pending.workers)]) :
              LET r == replicate_round(s1, pending.keys, pending.asked, pending.n,
                                       pending.workers, targets)
              IN /\ Effect(r.s, "replicate-gathered",
                           IF r.r = NoCall THEN NoCall
                           ELSE [r.r EXCEPT !.round = 1 - pending.round])
                 /\ UNCHANGED stimuli

\* The workers that replicate may pick for the orphans of W.
RetireTargets(W) ==
    IF Registered \ W = {} THEN {[k \in Orphans(Cur(<<>>), W) |-> {}]}
    ELSE ReplicateChoices([k \in Orphans(Cur(<<>>), W) |->
                              ReplicateTargets(Cur(<<>>), k, 1, Registered \ W)])

\* RPC retire_workers(workers=W), to its first yield or to its end.
RetireWorkers(W) ==
    /\ pending.op = "none"
    /\ W # {} /\ W \subseteq Registered
    /\ \E tie \in Ties, targets \in RetireTargets(W) :
           ProceedR(retire_workers(Cur(tie), W, targets), "retire")

\* retire_workers: the gathers of a round of its replicate have answered.
RetireGathered(ok) ==
    /\ pending.op = "retire-gather"
    /\ ok \subseteq {pending.plan[i][1] : i \in 1..Len(pending.plan)}
    /\ \E tie \in Ties :
       LET s1 == replicate_gathered(Cur(tie), pending, ok)
       IN \E targets \in ReplicateChoices([k \in pending.keys |->
                           ReplicateTargets(s1, k, pending.n, pending.workers)]) :
              LET r == retire_gathered(Cur(tie), pending, ok, targets)
              IN Effect(r.s, "retire-gathered", r.r) /\ UNCHANGED stimuli

\* retire_workers: a gather of its replicate raised.
RetireFailed ==
    /\ pending.op = "retire-gather"
    /\ Effect(Cur(<<>>), "retire-failed", NoCall) /\ UNCHANGED stimuli

\* replicate: a worker did not answer.
ReplicateFailed ==
    /\ pending.op \in {"replicate-delete", "replicate-gather"}
    /\ Proceed(Cur(<<>>), "replicate-failed", NoCall)

(***************************************************************************)
(* Steps of a BatchedSend                                                  *)
(***************************************************************************)

\* A step of the BatchedSend; the scheduler takes no part in it.
Batched(b) == batched' = b /\ UNCHANGED <<scheduler_vars, adaptive>>

\* start(comm) with a comm that was not used before
BatchedStart ==
    /\ batched.starts < MaxStarts
    /\ Batched(batched_start(batched))

\* send(*msgs) with n messages
BatchedSendMsgs(n) ==
    /\ batched.sends < MaxSends
    /\ Batched(batched_send(batched, n))

\* abort()
BatchedAbort ==
    /\ batched' = batched_abort(batched)
    /\ UNCHANGED <<scheduler_vars, adaptive>>

\* close(), one call at a time
BatchedClose ==
    /\ batched.closer.pc = "none"
    /\ Batched(batched_close(batched))

\* close() goes on when the background task it awaits has ended.
BatchedCloseResumes ==
    /\ batched.closer.pc = "await"
    /\ batched.running[batched.closer.task].pc = "done"
    /\ Batched(batched_flush(batched))

\* The write of close() ends; it cannot succeed on a closed comm.
BatchedCloseWritten(result) ==
    /\ batched.closer.pc = "write"
    /\ result = "OK" => batched.writes[batched.closer.write].comm \notin batched.closed
    /\ Batched(batched_flushed(batched, result))

\* A background task that start() created begins to run.
BackgroundStarts(i) ==
    /\ batched.running[i].pc = "loop"
    /\ Batched(background_loop(batched, i))

\* The wait of a background task ends: the waker is set, or the timeout,
\* which is next_deadline, has passed.
BackgroundWakes(i, woken) ==
    /\ batched.running[i].pc = "wait"
    /\ IF woken THEN batched.waker ELSE batched.next_deadline = "past"
    /\ Batched(background_send(batched, i, woken))

\* The write of a background task ends; it cannot succeed on a closed comm.
BackgroundWritten(i, ok) ==
    /\ batched.running[i].pc = "write"
    /\ ok => batched.writes[batched.running[i].write].comm \notin batched.closed
    /\ Batched(background_written(batched, i, ok))

\* Time passes: next_deadline is reached.
DeadlinePasses ==
    /\ batched.next_deadline = "future"
    /\ Batched([batched EXCEPT !.next_deadline = "past"])

\* The other side closes a comm.
CommCloses(c) ==
    /\ c \in 1..batched.starts
    /\ c \notin batched.closed
    /\ Batched([batched EXCEPT !.closed = @ \cup {c}])

(***************************************************************************)
(* Steps of an AdaptiveCore                                                *)
(***************************************************************************)

\* A step of the adaptive loop; the scheduler takes no part in it.
Adaptive(a) == adaptive' = a /\ UNCHANGED <<scheduler_vars, batched>>

\* AdaptiveCore(minimum, maximum, wait_count, interval) under the
\* configuration distributed.adaptive.retry.count, of a cluster with the
\* workers has
AdaptiveCreate(minimum, maximum, wait_count, interval, retry_count, has) ==
    /\ adaptive.state = "none"
    /\ Adaptive(adaptive_init(minimum, maximum, wait_count, interval, retry_count, has))

\* The loop runs the _start that __init__ added to it.
AdaptiveStart ==
    /\ adaptive.state = "starting"
    /\ Adaptive(adaptive_start(adaptive))

\* stop()
AdaptiveStop ==
    /\ adaptive.state \notin {"none", "inactive", "stopped"}
    /\ Adaptive(adaptive_stop(adaptive))

\* The periodic callback fires: _adapt of __init__ awaits adapt().
AdaptiveTick ==
    /\ adaptive.callback_running
    /\ Len(adaptive.ticks) < MaxTicks
    /\ Adaptive(adapt(adaptive))

\* target() returns n, or raises.
AdaptTargeted(n, ok) ==
    /\ adaptive.pc = "target"
    /\ Adaptive(adapt_once(adaptive, n, ok))

\* scale_up or scale_down returns, or raises; scale_up(n) has planned the
\* workers that |plan| lacked to n, as far as there are tokens.
AdaptScaled(ok) ==
    /\ adaptive.pc = "scale"
    /\ \E new \in SUBSET (AWorkers \ adaptive.plan) :
          /\ IF ok /\ adaptive.rec.status = "up"
             THEN \/ Cardinality(new) = adaptive.rec.n - Cardinality(adaptive.plan)
                  \/ /\ new = AWorkers \ adaptive.plan
                     /\ Cardinality(new) < adaptive.rec.n - Cardinality(adaptive.plan)
             ELSE new = {}
          /\ Adaptive(adapt_scaled(adaptive, ok, new))

\* A requested worker checks in with the scheduler.
WorkerObserved(w) ==
    /\ w \in adaptive.requested \ adaptive.observed
    /\ Adaptive([adaptive EXCEPT !.observed = @ \cup {w}, !.event = "observed"])

\* An observed worker leaves the scheduler.
WorkerGone(w) ==
    /\ w \in adaptive.observed
    /\ adaptive.gone < MaxGone
    /\ Adaptive([adaptive EXCEPT !.observed = @ \ {w}, !.gone = @ + 1,
                                 !.event = "gone"])

(***************************************************************************)
(* Specifications                                                          *)
(***************************************************************************)

\* The graphs a client submits: x alone, or y (computed from x) with x.
GraphInputs == {<<{"x"}, {"x"}>>, <<{"x", "y"}, {"y"}>>}

\* Restrictions and resources a client may attach to its keys.
OptionInputs ==
    {NoOptions,
     [NoOptions EXCEPT !.restrictions = TRUE, !.workers = {"w2"}],
     [NoOptions EXCEPT !.resources = MaxResource]}

\* Retries a client may attach to its keys.
RetryInputs == {NoOptions, [NoOptions EXCEPT !.retries = MaxRetries]}

\* Graph submission, execution, scattered data, workers coming and going.
Next ==
    \/ \E w \in Workers : Register(w, None, -1)
    \/ \E w \in Workers : Unregister(w)
    \/ \E w \in Workers, k \in Keys : TaskFinished(w, k, 1, 1)
    \/ \E w \in Workers, k \in Keys : TaskErred(w, k)
    \/ AddClient("c1")
    \/ \E g \in GraphInputs : UpdateGraph("c1", g[1], g[2], NoOptions)
    \/ \E k \in Keys, w \in Workers : UpdateData("c1", k, <<w>>, 1)

Spec == Init /\ [][Next]_vars

\* Data in memory: who holds it, and the messages that add or drop holders.
NextMemory ==
    \/ \E w \in Workers : Register(w, None, -1)
    \/ \E w \in Workers : Unregister(w)
    \/ AddClient("c1")
    \/ UpdateGraph("c1", {"x"}, {"x"}, NoOptions)
    \/ \E w \in Workers : TaskFinished(w, "x", 1, 1)
    \/ \E w \in Workers : UpdateData("c1", "x", <<w>>, 1)
    \/ \E w \in Workers : AddKeys(w, "x")
    \/ \E w \in Workers, e \in Workers : MissingData(w, "x", e)
    \/ \E w \in Workers : ReleaseWorkerData(w, "x")
    \/ ClientReleases("c1", {"x"})
    \/ Gather("x")
    \/ GatherDone
    \/ \E m \in SUBSET Workers : GatherFailed(m)

SpecMemory == Init /\ [][NextMemory]_vars

\* Occupancy: assignments, completions, long-running tasks, re-evaluation.
NextOccupancy ==
    \/ \E w \in Workers : Register(w, None, -1)
    \/ \E w \in Workers : Unregister(w)
    \/ AddClient("c1")
    \/ \E g \in GraphInputs : UpdateGraph("c1", g[1], g[2], NoOptions)
    \/ \E w \in Workers, k \in Keys, d \in DurationValues : TaskFinished(w, k, 1, d)
    \/ \E w \in Workers, k \in Keys, d \in DurationValues : LongRunning(w, k, d)
    \/ \E w \in Workers : Reevaluate(w)
    \/ \E w \in Workers : UpdateData("c1", "x", <<w>>, MaxNbytes)

SpecOccupancy == Init /\ [][NextOccupancy]_vars

\* Workers registering under an address or a name, heartbeats, removals.
NextWorkers ==
    \/ \E w \in Workers, name \in Names \cup {None} : Register(w, name, -1)
    \/ \E w \in Workers, k \in Keys : RegisterWithData(w, k, 1)
    \/ \E w \in Workers : Unregister(w)
    \/ AddClient("c1")
    \/ UpdateGraph("c1", {"x"}, {"x"}, NoOptions)
    \/ \E w \in Workers : TaskFinished(w, "x", 1, 1)

SpecWorkers == Init /\ [][NextWorkers]_vars

\* The bytes held by workers: completions, scattered data, copies and moves.
NextBytes ==
    \/ \E w \in Workers : Register(w, None, -1)
    \/ AddClient("c1")
    \/ UpdateGraph("c1", {"x"}, {"x"}, NoOptions)
    \/ \E w \in Workers, nb \in NbytesValues : TaskFinished(w, "x", nb, 1)
    \/ \E w \in Workers, k \in Keys, nb \in NbytesValues : UpdateData("c1", k, <<w>>, nb)
    \/ \E w \in Workers : AddKeys(w, "x")
    \/ \E w \in Workers : MissingData(w, "x", w)
    \/ \E w \in Workers : ReleaseWorkerData(w, "x")
    \/ Rebalance({}, {})
    \/ RebalanceGathered
    \/ RebalanceDeleted
    \/ RebalanceFailed
    \/ \E n \in 1..2 : Replicate({"x"}, n)
    \/ ReplicateDeleted
    \/ \E ok \in SUBSET Workers : ReplicateGathered(ok)
    \/ ReplicateFailed

SpecBytes == Init /\ [][NextBytes]_vars

\* Clients: connecting, asking for keys, releasing, cancelling, leaving.
NextClients ==
    \/ Register("w1", None, -1)
    \/ \E k \in Keys : TaskFinished("w1", k, 1, 1)
    \/ \E k \in Keys : TaskErred("w1", k)
    \/ \E c \in Clients : AddClient(c)
    \/ \E c \in Clients : ClientStreamEnd(c)
    \/ \E c \in Clients, g \in GraphInputs : UpdateGraph(c, g[1], g[2], NoOptions)
    \/ \E c \in Clients, k \in Keys : ClientDesires(c, {k})
    \/ \E c \in Clients, k \in Keys : ClientReleases(c, {k})
    \/ \E k \in Keys, force \in BOOLEAN : Cancel("c1", {k}, force)

SpecClients == Init /\ [][NextClients]_vars

\* Client streams: messages that are handled or fail, and the end of a stream.
NextStreams ==
    \/ \E w \in Workers : Register(w, None, -1)
    \/ \E w \in Workers : Unregister(w)
    \/ \E w \in Workers, k \in Keys : TaskFinished(w, k, 1, 1)
    \/ \E c \in Clients : AddClient(c)
    \/ \E c \in Clients : ClientStreamEnd(c)
    \/ \E g \in GraphInputs : UpdateGraph("c1", g[1], g[2], NoOptions)
    \/ \E c \in Clients, k \in Keys : ClientDesires(c, {k})
    \/ \E k \in Keys : ClientReleases("c1", {k})
    \/ \E c \in Clients, w \in Workers : ClientUpdateData(c, "x", <<w>>, 1)

SpecStreams == Init /\ [][NextStreams]_vars

\* Dependencies: y waits for x while holders of x come and go.
NextDependencies ==
    \/ \E w \in Workers : Register(w, None, -1)
    \/ \E w \in Workers : Unregister(w)
    \/ AddClient("c1")
    \/ \E g \in GraphInputs : UpdateGraph("c1", g[1], g[2], NoOptions)
    \/ \E w \in Workers, k \in Keys : TaskFinished(w, k, 1, 1)
    \/ \E w \in Workers, e \in Workers : MissingData(w, "x", e)
    \/ \E w \in Workers : ReleaseWorkerData(w, "x")
    \/ \E k \in Keys : ClientReleases("c1", {k})
    \/ \E w \in Workers : UpdateData("c1", "x", <<w>>, 1)

SpecDependencies == Init /\ [][NextDependencies]_vars

\* Restrictions and resources: which workers may run a task.
NextResources ==
    \/ \E w \in Workers, q \in {-1, MaxResource} : Register(w, None, q)
    \/ \E w \in Workers : SetResources(w, MaxResource)
    \/ \E w \in Workers : Unregister(w)
    \/ AddClient("c1")
    \/ \E o \in OptionInputs : UpdateGraph("c1", {"x"}, {"x"}, o)
    \/ \E w \in Workers : TaskFinished(w, "x", 1, 1)

SpecResources == Init /\ [][NextResources]_vars

\* Changes of state: retries, workers that report keys, scattered data,
\* missing data and rescheduling.
NextEdges ==
    \/ \E w \in Workers : Register(w, None, -1)
    \/ \E k \in Keys : RegisterWithData("w2", k, 1)
    \/ AddClient("c1")
    \/ \E g \in GraphInputs, o \in RetryInputs : UpdateGraph("c1", g[1], g[2], o)
    \/ \E w \in Workers, k \in Keys : TaskFinished(w, k, 1, 1)
    \/ \E w \in Workers, k \in Keys : TaskErred(w, k)
    \/ \E w \in Workers, k \in Keys : Reschedule(w, k)
    \/ \E w \in Workers : MissingData(w, "x", w)
    \/ \E k \in Keys : UpdateData("c1", k, <<"w1">>, 1)
SpecEdges == Init /\ [][NextEdges]_vars

\* Workers that are lost or retired while they run tasks.
NextSuspicion ==
    \/ \E w \in Workers : Register(w, None, -1)
    \/ \E w \in Workers : Unregister(w)
    \/ \E w \in Workers : Retire(w)
    \/ AddClient("c1")
    \/ \E g \in GraphInputs : UpdateGraph("c1", g[1], g[2], NoOptions)
    \/ \E w \in Workers, k \in Keys : TaskFinished(w, k, 1, 1)
    \/ \E w \in Workers : UpdateData("c1", "x", <<w>>, 1)
SpecSuspicion == Init /\ [][NextSuspicion]_vars

\* A worker is lost while it runs a task; the workers that stay answer the
\* compute-task messages they hold.
NextLost ==
    \/ \E w \in Workers : Register(w, None, -1)
    \/ \E w \in Workers : Unregister(w)
    \/ AddClient("c1")
    \/ \E g \in GraphInputs : UpdateGraph("c1", g[1], g[2], NoOptions)
    \/ \E w \in Workers : UpdateData("c1", "x", <<w>>, 1)
    \/ \E w \in Workers, k \in Keys : Finished(w, k)

\* The compute-task message for k that worker w holds is answered: the step
\* Finished(w, k), told by the message it consumes.  Finished(w, k) is enabled
\* exactly when the message is outstanding and the stream is open.
Answers(w, k) ==
    /\ StreamOpen(w)
    /\ <<k, w>> \in assigned
    /\ \E A \in SUBSET (Keys \X Workers) : <<k, w>> \notin A /\ assigned' = A

\* A worker whose stream is open runs the task of a compute-task message and
\* reports on it.
WorkersAnswer == \A w \in Workers, k \in Keys : WF_assigned(Answers(w, k))

SpecLost == Init /\ [][NextLost]_vars /\ WorkersAnswer

\* A client releases a key that is processing and submits it again; the
\* worker of the released execution may still report on it.
NextResubmit ==
    \/ \E w \in Workers : Register(w, None, -1)
    \/ AddClient("c1")
    \/ \E g \in GraphInputs : UpdateGraph("c1", g[1], g[2], NoOptions)
    \/ \E k \in Keys : ClientReleases("c1", {k})
    \/ \E w \in Workers, k \in Keys : Finished(w, k)
    \/ \E w \in Workers, k \in Keys : LateErred(w, k)

SpecResubmit == Init /\ [][NextResubmit]_vars /\ WorkersAnswer

\* A worker finds that a recorded holder of a dependency does not have it.
NextMissing ==
    \/ \E w \in Workers : Register(w, None, -1)
    \/ AddClient("c1")
    \/ \E g \in GraphInputs : UpdateGraph("c1", g[1], g[2], NoOptions)
    \/ \E w \in Workers, k \in Keys : Finished(w, k)
    \/ \E w \in Workers, e \in Workers : MissingData(w, "x", e)
    \/ \E w \in Workers : UpdateData("c1", "x", <<w>>, 1)

SpecMissing == Init /\ [][NextMissing]_vars /\ WorkersAnswer

\* Clients that submit, want and cancel keys, one worker that computes them,
\* and the loop that runs the deferred cancellations.
NextCancel ==
    \/ Register("w1", None, -1)
    \/ \E k \in Keys : TaskFinished("w1", k, 1, 1)
    \/ \E c \in Clients : AddClient(c)
    \/ \E g \in GraphInputs : UpdateGraph("c1", g[1], g[2], NoOptions)
    \/ ClientDesires("c2", {"x"})
    \/ \E k \in Keys, force \in BOOLEAN : Cancel("c1", {k}, force)
    \/ CancelRetry
    \/ UpdateData("c1", "x", <<"w1">>, 1)

SpecCancel == Init /\ [][NextCancel]_vars

\* Scattered data that is replicated while workers give up copies, leave or
\* fail to answer.
NextReplicate ==
    \/ \E w \in Workers : Register(w, None, -1)
    \/ \E w \in Workers : Unregister(w)
    \/ AddClient("c1")
    \/ \E k \in Keys, ws \in {<<"w1">>, <<"w1", "w2">>} : UpdateData("c1", k, ws, 1)
    \/ \E w \in Workers, k \in Keys : ReleaseWorkerData(w, k)
    \/ \E K \in SUBSET Keys \ {{}}, n \in 1..2 : Replicate(K, n)
    \/ ReplicateDeleted
    \/ \E ok \in SUBSET Workers : ReplicateGathered(ok)
    \/ ReplicateFailed

SpecReplicate == Init /\ [][NextReplicate]_vars

\* Scattered data that is rebalanced while workers give up copies, leave or
\* fail to answer.
NextRebalance ==
    \/ \E w \in Workers : Register(w, None, -1)
    \/ \E w \in Workers : Unregister(w)
    \/ AddClient("c1")
    \/ \E k \in Keys, w \in Workers : UpdateData("c1", k, <<w>>, 1)
    \/ \E w \in Workers, k \in Keys : ReleaseWorkerData(w, k)
    \/ \E K \in SUBSET Keys, ws \in {{}, Workers} : Rebalance(K, ws)
    \/ RebalanceGathered
    \/ RebalanceDeleted
    \/ RebalanceFailed
    \/ RebalanceRefused

SpecRebalance == Init /\ [][NextRebalance]_vars

\* A BatchedSend that is started, used, closed, aborted and started again.
NextBatched ==
    \/ BatchedStart
    \/ \E n \in 1..2 : BatchedSendMsgs(n)
    \/ BatchedAbort
    \/ BatchedClose
    \/ BatchedCloseResumes
    \/ \E result \in {"OK", "CommClosedError", "Exception"} : BatchedCloseWritten(result)
    \/ \E i \in 1..MaxStarts : BackgroundStarts(i)
    \/ \E i \in 1..MaxStarts, woken \in BOOLEAN : BackgroundWakes(i, woken)
    \/ \E i \in 1..MaxStarts, ok \in BOOLEAN : BackgroundWritten(i, ok)
    \/ DeadlinePasses
    \/ \E c \in 1..MaxStarts : CommCloses(c)

SpecBatched == Init /\ [][NextBatched]_vars

\* The AdaptiveCores of the model: minimum, maximum, wait_count, interval,
\* the configured retry count and the workers of the cluster.
AdaptiveInputs ==
    {<<1, Finite(3), 3, 1, 0, AWorkers>>, <<0, Infinity, 2, 1, 1, {}>>,
     <<0, Infinity, 3, 0, 0, {}>>}

\* An AdaptiveCore under ticks of its periodic callback, answers and
\* failures of target(), scale_up and scale_down, and workers that check in
\* and leave.
NextAdaptive ==
    \/ \E i \in AdaptiveInputs : AdaptiveCreate(i[1], i[2], i[3], i[4], i[5], i[6])
    \/ AdaptiveStart
    \/ AdaptiveStop
    \/ AdaptiveTick
    \/ \E n \in 0..MaxTarget, ok \in BOOLEAN : AdaptTargeted(n, ok)
    \/ \E ok \in BOOLEAN : AdaptScaled(ok)
    \/ \E w \in AWorkers : WorkerObserved(w)
    \/ \E w \in AWorkers : WorkerGone(w)

SpecAdaptive == Init /\ [][NextAdaptive]_vars

\* Worker streams: the messages of workers about a task that the scheduler
\* knows, has forgotten or never knew.
NextMessages ==
    \/ \E w \in Workers : Register(w, None, -1)
    \/ \E w \in Workers : Unregister(w)
    \/ AddClient("c1")
    \/ UpdateGraph("c1", {"x"}, {"x"}, NoOptions)
    \/ ClientReleases("c1", {"x"})
    \/ \E w \in Workers : TaskFinished(w, "x", 1, 1)
    \/ \E w \in Workers : TaskErred(w, "x")
    \/ \E w \in Workers, errant \in Workers : MissingData(w, "x", errant)
    \/ \E w \in Workers, d \in 0..1 : LongRunning(w, "x", d)
    \/ \E w \in Workers : ReleaseWorkerData(w, "x")
    \/ \E w \in Workers : AddKeys(w, "x")
    \/ \E w \in Workers : Reschedule(w, "x")

SpecMessages == Init /\ [][NextMessages]_vars

\* Data that workers report as missing: y depends on x, workers hold copies
\* of x, and workers report x as missing or release y for the lack of x.
NextReports ==
    \/ \E w \in Workers : Register(w, None, -1)
    \/ AddClient("c1")
    \/ UpdateGraph("c1", {"x", "y"}, {"y"}, NoOptions)
    \/ \E w \in Workers, k \in Keys : TaskFinished(w, k, 1, 1)
    \/ \E w \in Workers : AddKeys(w, "x")
    \/ \E w \in Workers, e \in Workers : MissingData(w, "x", e)
    \/ \E w \in Workers, k \in Keys, cause \in Keys \cup {None} : ReleaseData(w, k, cause)

SpecReports == Init /\ [][NextReports]_vars

\* The restrictions a client may attach to its key: workers, hosts, a
\* resource, each of them or several, strict or loose.
RestrictionInputs ==
    {[NoOptions EXCEPT !.restrictions = TRUE, !.workers = {"w1"}],
     [NoOptions EXCEPT !.restrictions = TRUE, !.hosts = {"h2"}],
     [NoOptions EXCEPT !.restrictions = TRUE, !.workers = {"w1"}, !.hosts = {"h2"}],
     [NoOptions EXCEPT !.restrictions = TRUE, !.workers = {"w1"}, !.loose = TRUE],
     [NoOptions EXCEPT !.restrictions = TRUE, !.hosts = {"h2"}, !.resources = MaxResource],
     [NoOptions EXCEPT !.resources = MaxResource]}

\* Restricted tasks and the workers that may run them.
NextRestrictions ==
    \/ \E w \in Workers, q \in {-1, MaxResource} : Register(w, None, q)
    \/ Unregister("w1")
    \/ AddClient("c1")
    \/ \E o \in RestrictionInputs : UpdateGraph("c1", {"x"}, {"x"}, o)

SpecRestrictions == Init /\ [][NextRestrictions]_vars

(***************************************************************************)
(* Properties                                                              *)
(***************************************************************************)

InPlay == {"waiting", "processing"}

\* C1: a task is in state processing exactly when processing_on is a worker
\* whose processing map has the task; and every task in the processing map of
\* a registered worker is in state processing with that worker as processing_on.
C1_ProcessingOnMatchesState ==
    /\ \A k \in Keys :
           (tasks[k].state = "processing") <=>
               /\ tasks[k].processing_on \in DOMAIN workers
               /\ k \in DOMAIN workers[tasks[k].processing_on].processing
    /\ \A w \in Registered : \A k \in DOMAIN workers[w].processing :
           tasks[k].state = "processing" /\ tasks[k].processing_on = w

\* C2: a task is in state memory exactly when who_has is not empty, and
\* who_has and has_what mirror each other.
C2_MemoryMatchesWhoHas ==
    /\ \A k \in Keys : (tasks[k].state = "memory") <=> (tasks[k].who_has # {})
    /\ \A k \in Keys : \A w \in tasks[k].who_has : k \in workers[w].has_what
    /\ \A w \in Registered : \A k \in workers[w].has_what : w \in tasks[k].who_has

\* C3: while a worker is removed no task has it as processing_on or in
\* who_has, its has_what is empty, and every task in memory has a holder that
\* is in the workers table.
C3_RemovedWorkerUnreferenced ==
    removed # {} =>
        /\ \A w \in removed : \A k \in Keys :
               tasks[k].processing_on # w /\ w \notin tasks[k].who_has
        /\ \A w \in removed \cap DOMAIN workers : workers[w].has_what = {}
        /\ \A k \in Keys : tasks[k].state = "memory" =>
               tasks[k].who_has \cap Registered # {}

\* C4: the occupancy of each registered worker is the sum of its processing
\* map, and total_occupancy is the sum of the occupancies of the registered
\* workers.
C4_OccupancySums ==
    /\ \A w \in Registered : workers[w].occupancy = SumValues(workers[w].processing)
    /\ total_occupancy = SumOver([w \in Registered |-> workers[w].occupancy], Registered)

\* C5: total_ncores is the sum of ncores over the workers table, and workers,
\* worker_info and worker_comms hold the same addresses.
C5_WorkerTablesAgree ==
    /\ total_ncores = SumOver([w \in Registered |-> workers[w].ncores], Registered)
    /\ Registered = DOMAIN worker_info
    /\ Registered = worker_comms

\* C6: the nbytes of each registered worker is the sum of the nbytes of the
\* tasks in its has_what.
C6_WorkerBytes ==
    \A w \in Registered :
        workers[w].nbytes =
            SumOver([k \in Keys |-> get_nbytes(tasks[k])], workers[w].has_what)

\* C7: a client of the clients table is in who_wants of a task exactly when
\* the task is in its wants_what, and who_wants names only clients of the table.
C7_DesiresSymmetric ==
    /\ \A c \in DOMAIN clients : \A k \in Keys :
           (c \in tasks[k].who_wants) <=> (k \in clients[c])
    /\ \A k \in Keys : tasks[k].who_wants \subseteq DOMAIN clients

\* C8: a waiting task waits only on dependencies, each dependency is either
\* waited on or in memory but not both, and nothing waits on a released or
\* forgotten task.
C8_WaitingOnDependencies ==
    /\ \A k \in Keys : tasks[k].state = "waiting" =>
           /\ tasks[k].waiting_on \subseteq tasks[k].dependencies
           /\ \A d \in tasks[k].dependencies :
                  (d \in tasks[k].waiting_on) <=> (tasks[d].who_has = {})
    /\ \A k \in Keys : \A d \in tasks[k].waiting_on :
           tasks[d].state \notin {"released", "forgotten"}

\* C9: every waiter of a task is a dependent in state waiting or processing;
\* for a task in memory the waiters are exactly the dependents in those states,
\* and no dependent waits on it.
C9_WaitersInPlay ==
    /\ \A k \in Keys : \A d \in tasks[k].waiters :
           d \in tasks[k].dependents /\ tasks[d].state \in InPlay
    /\ \A k \in Keys : tasks[k].state = "memory" =>
           \A d \in tasks[k].dependents :
               /\ (d \in tasks[k].waiters) <=> (tasks[d].state \in InPlay)
               /\ k \notin tasks[d].waiting_on

\* A registered worker that the task's restrictions allow.
Satisfies(w, ts) ==
    /\ \/ ts.worker_restrictions = {} /\ ts.host_restrictions = {}
       \/ w \in ts.worker_restrictions
       \/ HostOf(w) \in ts.host_restrictions
    /\ \/ ts.resource_restrictions = 0
       \/ workers[w].resources >= ts.resource_restrictions

\* C10: a task is in unrunnable exactly when its state is no-worker, and then
\* no registered worker satisfies its restrictions.
C10_UnrunnableHasNoWorker ==
    /\ \A k \in Keys : (k \in unrunnable) <=> (tasks[k].state = "no-worker")
    /\ \A k \in unrunnable : \A w \in Registered : ~Satisfies(w, tasks[k])

\* The edges of the state graph of a task.
AllowedEdges ==
    {<<"released", "waiting">>, <<"waiting", "processing">>,
     <<"waiting", "no-worker">>, <<"no-worker", "waiting">>,
     <<"processing", "memory">>, <<"processing", "released">>,
     <<"processing", "erred">>, <<"memory", "released">>,
     <<"erred", "waiting">>}
        \cup {<<a, "forgotten">> :
                 a \in {"released", "waiting", "no-worker", "processing", "memory",
                        "erred"}}

\* C11: every change of a task's state that a stimulus makes is one of the
\* allowed edges: released to waiting, waiting to processing or no-worker,
\* no-worker to waiting, processing to memory, released or erred, memory to
\* released, erred to waiting, or any state to forgotten.
C11_AllowedEdges == last.changes \subseteq AllowedEdges

\* Worker w leaves the workers table in this step.
Leaves(w) == w \in Registered /\ w \notin {v \in DOMAIN workers' : workers'[v].live}

\* Task k is processing on worker w.
ProcessingOn(k, w) ==
    /\ tasks[k].state = "processing"
    /\ tasks[k].processing_on = w
    /\ k \in DOMAIN workers[w].processing

Wanted(k) == tasks[k].who_wants # {} \/ tasks[k].waiters # {}

\* Some task has failed with more workers than allowed_failures.
Poisoned == \E j \in Keys : tasks[j].suspicious > AllowedFailures

\* Task k was lost with a worker, within allowed_failures, and is to run again.
Rerun(k) ==
    /\ tasks[k].state \in InPlay
    /\ tasks[k].suspicious >= 1
    /\ Wanted(k)
    /\ Registered # {}
    /\ ~Poisoned

\* C13: if the worker that executes a wanted task is lost, the suspicious count
\* of the task stays within allowed_failures and another worker stays
\* registered, then the task goes processing -> released -> waiting and is
\* waiting or processing on a registered worker other than the lost one, no
\* task becomes erred (no task-erred message is sent), and, the workers
\* answering, the task eventually reaches memory.
C13_LostTaskRunsAgain ==
    /\ [][\A w \in Workers, k \in Keys :
            (/\ last'.op = "remove_worker"
             /\ Leaves(w)
             /\ ProcessingOn(k, w)
             /\ Wanted(k)
             /\ tasks[k].suspicious < AllowedFailures
             /\ ~Poisoned
             /\ Registered \ {w} # {})
            => /\ {<<"processing", "released">>, <<"released", "waiting">>}
                   \subseteq last'.changes
               /\ \A e \in last'.changes : e[2] # "erred"
               /\ tasks'[k].suspicious = tasks[k].suspicious + 1
               /\ \/ tasks'[k].state = "waiting"
                  \/ /\ tasks'[k].state = "processing"
                     /\ tasks'[k].processing_on \in Registered \ {w}]_vars
    /\ \A k \in Keys :
           Rerun(k) ~> \/ tasks[k].state = "memory"
                       \/ ~Wanted(k)
                       \/ Registered = {}
                       \/ Poisoned

C15_BlamePropagates ==
    \A k \in Keys :
        /\ tasks[k].state = "erred"
               => /\ tasks[k].exception_blame \in Keys
                  /\ tasks[tasks[k].exception_blame].state = "erred"
                  /\ \A d \in tasks[k].dependents :
                         /\ tasks[d].state = "erred"
                         /\ tasks[d].exception_blame = tasks[k].exception_blame
        /\ tasks[k].state # "erred" => tasks[k].exception_blame = None

\* C16: once the stream of a client has ended, whatever ended it, the client
\* is not in the clients table and no task has it in who_wants; and the step
\* that ends the stream forgets every task that only this client wanted and
\* that has no dependents.
C16_StreamEndRemovesClient ==
    /\ [](\A c \in Clients :
             c \notin client_comms
                 => /\ c \notin DOMAIN clients
                    /\ \A k \in Keys : c \notin tasks[k].who_wants)
    /\ [][\A c \in Clients :
            (c \in client_comms /\ c \notin client_comms')
                => \A k \in Keys :
                       (tasks[k].who_wants = {c} /\ tasks[k].dependents = {})
                           => tasks'[k].state = "forgotten"]_vars

\* C17: after every stimulus, every task in memory is wanted by a client or
\* has a waiter; no task that no client wants and that has no dependents is
\* in the task table; and no worker has a forgotten task in has_what.
C17_NoUnneededTask ==
    /\ \A k \in Keys :
           /\ tasks[k].state = "memory"
                  => tasks[k].who_wants # {} \/ tasks[k].waiters # {}
           /\ tasks[k].state # "forgotten"
                  => tasks[k].who_wants # {} \/ tasks[k].dependents # {}
    /\ \A w \in Registered :
           \A k \in workers[w].has_what : tasks[k].state # "forgotten"

\* Worker w may still report on an execution of k that was released: it holds
\* a compute-task message for k, and k is submitted again and not processing
\* on w.
Stale(k, w) ==
    /\ <<k, w>> \in assigned
    /\ StreamOpen(w)
    /\ tasks[k].state \in InPlay
    /\ tasks[k].processing_on # w

\* C18: a key released while it was processing and submitted again is
\* scheduled and eventually reaches memory for as long as it is wanted; a
\* late task-finished or task-erred of the released execution leaves the new
\* execution processing, or in memory when the late report is a result.
C18_ResubmittedKeyCompletes ==
    /\ [][\A w \in Workers, k \in Keys :
            (Stale(k, w) /\ <<k, w>> \notin assigned'
                 /\ last'.op \in {"task-finished", "task-erred"})
            => /\ tasks'[k].state \in InPlay \cup {"memory"}
               /\ tasks'[k].state = "memory" => last'.op = "task-finished"
               /\ tasks'[k].exception_blame = None]_vars
    /\ \A k \in Keys :
           (\E w \in Workers : Stale(k, w)) /\ Wanted(k)
               ~> (tasks[k].state = "memory" \/ ~Wanted(k))

\* C19: when a worker reports missing-data for a dependency x that the
\* scheduler records on worker e, e is dropped from the holders of x; when no
\* holder is left, x (it has a run_spec) is released and computed again; and
\* the dependent task y eventually reaches memory.
C19_MissingDataRecovers ==
    /\ [][\A w \in Workers, e \in Registered :
            (/\ MissingData(w, "x", e)
             /\ tasks["x"].state = "memory"
             /\ e \in tasks["x"].who_has)
            => /\ e \notin tasks'["x"].who_has
               /\ e \in DOMAIN workers' => "x" \notin workers'[e].has_what
               /\ (tasks["x"].who_has = {e} /\ tasks["x"].run_spec /\ Wanted("x"))
                      => /\ tasks'["x"].state \in InPlay
                         /\ tasks'["y"].state # "processing"]_vars
    /\ (/\ last.op = "missing-data"
        /\ <<"memory", "released">> \in last.changes
        /\ tasks["y"].state \in InPlay
        /\ Wanted("y"))
           ~> (tasks["y"].state = "memory" \/ Registered = {})

\* A handler that starts after another one: the exception and the log of
\* changes belong to one handler.
Reset(s) == [s EXCEPT !.exc = FALSE, !.changes = {}]

RECURSIVE RunTimers(_)
\* The state after the loop has run every cancel_key callback, those that
\* the callbacks put on it included.
RunTimers(s) ==
    IF s.timers = <<>> THEN s
    ELSE RunTimers(cancel_key([Reset(s) EXCEPT !.timers = Tail(@)],
                              s.timers[1][1], s.timers[1][2], s.timers[1][3], FALSE))

\* The tasks, the clients and the registered workers of a state.
Visible(s) == <<s.tasks, s.clients, [w \in Live(s) |-> s.workers[w]]>>

\* C20: from every reachable state and for every key set, client and force
\* flag, cancelling twice leaves the same tasks, workers and clients as
\* cancelling once, after the deferred retries of the calls have run.
C20_CancelIdempotent ==
    \A K \in SUBSET Keys, c \in Clients, force \in BOOLEAN, tie \in Ties :
        LET first == stimulus_cancel(Cur(tie), K, c, force)
            once == RunTimers(first)
            twice == RunTimers(stimulus_cancel(Reset(first), K, c, force))
        IN Visible(once) = Visible(twice)

\* A cancellation that releases a key wanted by two clients and defers
\* another key, in a state that a deferred retry left.
C20_Witness ==
    /\ last.op = "cancel_key"
    /\ \E k \in Keys, tie \in Ties :
           LET first == stimulus_cancel(Cur(tie), Keys, "c1", TRUE)
           IN /\ Cardinality(tasks[k].who_wants) = 2
              /\ first.tasks # tasks
              /\ first.timers # timers

\* The holders of k among the workers ws.
Holders(k, ws) == tasks[k].who_has \cap ws

\* C21: when replicate(K, n) over the workers W returns successfully, every
\* key of K has at least min(n, |W|) holders among W; the call returns from
\* its first part or from a round of its copy loop.
C21_ReplicateConverges ==
    /\ [][\A K \in SUBSET Keys \ {{}}, n \in 1..2 :
            (/\ Replicate(K, n)
             /\ \A k \in K : tasks[k].who_has # {}
             /\ pending' = NoCall
             /\ ~last'.exc)
            => \A k \in K : Cardinality(Holders(k, Registered)')
                                >= Min(n, Cardinality(Registered))]_vars
    /\ [][(/\ pending.op \in {"replicate-delete", "replicate-gather"}
           /\ last'.op \in {"replicate-deleted", "replicate-gathered"}
           /\ pending' = NoCall
           /\ ~last'.exc)
          => \A k \in pending.asked :
                 Cardinality(tasks'[k].who_has \cap pending.workers) >= pending.n]_vars

\* The keys in memory.
InMemory == {k \in Keys : tasks[k].state = "memory"}

\* The number of replicas of k that the moves msgs carry.
Moves(msgs, k) == Cardinality({i \in 1..Len(msgs) : msgs[i][3] = k})

\* C22: every part of rebalance, whether the call goes on, succeeds, reports
\* missing-data or fails, leaves the same tasks in memory and leaves no task
\* without a holder; when rebalance returns OK each moved replica has left
\* its sender and is on its recipient, and the deletes took one holder of
\* the task away for each of its moves.
C22_RebalanceMovesReplicas ==
    /\ [][last'.op \in {"rebalance", "rebalance-gathered", "rebalance-deleted",
                         "rebalance-failed", "rebalance-missing-data"}
          => /\ InMemory' = InMemory
             /\ \A k \in InMemory : tasks[k].who_has # {} => tasks'[k].who_has # {}]_vars
    /\ [][(last'.op = "rebalance-deleted" /\ ~last'.exc)
          => /\ \A k \in Keys : Cardinality(tasks'[k].who_has)
                                    = Cardinality(tasks[k].who_has) - Moves(pending.plan, k)
             /\ \A i \in 1..Len(pending.plan) :
                    /\ pending.plan[i][1] \notin tasks'[pending.plan[i][3]].who_has
                    /\ pending.plan[i][2] \in tasks'[pending.plan[i][3]].who_has]_vars

RECURSIVE Flatten(_)
\* The messages of a sequence of batches, batch after batch.
Flatten(batches) ==
    IF batches = <<>> THEN <<>> ELSE batches[1] \o Flatten(Tail(batches))

\* The messages handed to comm.write, in the order of the calls.
Written == Flatten([i \in 1..Len(batched.writes) |-> batched.writes[i].batch])

\* C23: the messages written to the comms of a BatchedSend, batch after
\* batch in write order, are messages that send() got, in the order it got
\* them and each at most once; the messages of a failed write included, so
\* that none of them is written again, on the same comm or on a later one.
C23_WritesInSendOrder ==
    /\ \A i \in 1..Len(Written) : Written[i] \in 1..batched.message_count
    /\ \A i, j \in 1..Len(Written) : i < j => Written[i] < Written[j]

\* A write failed, the BatchedSend was started with a new comm, and a batch
\* was written on it.
C23_Witness ==
    \E i, j \in 1..Len(batched.writes) :
        /\ i < j
        /\ batched.writes[i].status = "failed"
        /\ batched.writes[j].status = "written"
        /\ batched.writes[i].comm # batched.writes[j].comm
        /\ Len(batched.writes[j].batch) = 2


(***************************************************************************)
(* The adaptive loop                                                       *)
(***************************************************************************)

\* The workers recommended for closing in tick k were close candidates in
\* each of the wait_count ticks that end with tick k.
CloseAfterWaitCount ==
    \A k \in 1..Len(adaptive.ticks) : \A w \in adaptive.ticks[k].down :
        /\ k >= adaptive.wait_count
        /\ \A j \in (k - adaptive.wait_count + 1)..k : w \in adaptive.ticks[j].cand

\* Four planned and observed workers, a target of two and a wait_count of
\* three: nothing is recommended for closing in ticks 1 and 2, two workers
\* in tick 3.
IdleFour ==
    (/\ adaptive.wait_count = 3
     /\ Len(adaptive.ticks) >= 3
     /\ \A k \in 1..3 : adaptive.ticks[k].idle4 = "yes")
    => /\ adaptive.ticks[1].down = {}
       /\ adaptive.ticks[2].down = {}
       /\ Cardinality(adaptive.ticks[3].down) = 2

\* C24: a worker is in a 'down' recommendation of tick k only if it was a
\* close candidate in each of the wait_count consecutive ticks ending at k;
\* and with plan = observed = 4 workers, target = 2 and wait_count = 3, no
\* worker is recommended for closing in ticks 1 and 2 and two workers are
\* recommended in tick 3.
C24_CloseAfterWaitCount == CloseAfterWaitCount /\ IdleFour

\* The case of IdleFour happens.
IdleFourHappens ==
    ~(/\ adaptive.wait_count = 3
      /\ Len(adaptive.ticks) >= 3
      /\ \A k \in 1..3 : adaptive.ticks[k].idle4 = "yes")

\* C25: when a tick of the adaptive loop has failed after all its retries,
\* the loop is stopped: its state is 'stopped' and its periodic callback does
\* not run any more; and no step of the loop touches the scheduler.
C25_FailedTickStops ==
    /\ [](adaptive.event = "failed"
          => adaptive.state = "stopped" /\ ~adaptive.callback_running)
    /\ [][adaptive' # adaptive => UNCHANGED scheduler_vars]_vars

(***************************************************************************)
(* Messages of workers                                                     *)
(***************************************************************************)

\* A step that handles a message of worker w that names key k, and for
\* missing-data the errant worker e.
WorkerMessage(w, k, e) ==
    \/ TaskFinished(w, k, 1, 1)
    \/ TaskErred(w, k)
    \/ MissingData(w, k, e)
    \/ \E d \in 0..1 : LongRunning(w, k, d)
    \/ ReleaseWorkerData(w, k)
    \/ AddKeys(w, k)
    \/ Reschedule(w, k)

\* C26: a message of a worker (task-finished, task-erred, missing-data,
\* long-running, release-worker-data, add-keys, reschedule) that names a key
\* the scheduler does not know is dropped, and so is a missing-data message
\* that names a worker it does not know: the handler does not raise, tasks,
\* workers and clients are left as they were, and the sender is not removed.
C26_UnknownIsDropped ==
    [][\A w \in Workers, k \in Keys, e \in Workers :
          (/\ WorkerMessage(w, k, e)
           /\ \/ tasks[k].state = "forgotten"
              \/ MissingData(w, k, e) /\ e \notin Registered)
          => /\ ~last'.exc
             /\ tasks' = tasks
             /\ workers' = workers
             /\ clients' = clients
             /\ w \in Registered']_vars

(***************************************************************************)
(* Invariants across rebalance and replicate                               *)
(***************************************************************************)

\* who_has and has_what mirror each other, a task is in memory exactly when
\* it has a holder, every holder is a registered worker, and the nbytes of a
\* registered worker is the sum over its has_what.
DataInvariants ==
    /\ \A k \in Keys : \A w \in tasks[k].who_has :
           w \in Registered /\ k \in workers[w].has_what
    /\ \A w \in Registered : \A k \in workers[w].has_what : w \in tasks[k].who_has
    /\ \A k \in Keys : (tasks[k].state = "memory") <=> (tasks[k].who_has # {})
    /\ \A w \in Registered :
           workers[w].nbytes =
               SumOver([k \in Keys |-> get_nbytes(tasks[k])], workers[w].has_what)

\* The steps of rebalance and replicate: the call, and the continuations
\* after the workers answered.
MoveOps ==
    {"rebalance", "rebalance-gathered", "rebalance-deleted", "rebalance-failed",
     "rebalance-missing-data", "replicate", "replicate-gathered", "replicate-deleted", "replicate-failed"}

\* C27: the invariants of the scheduler (who_has / has_what symmetry, memory
\* exactly with a holder, holders registered, worker nbytes) that hold before
\* the step in which rebalance or replicate completes hold after it, whatever
\* stimuli were handled while the operation awaited the workers.
C27_MovesKeepInvariants ==
    [][(last'.op \in MoveOps /\ pending' = NoCall /\ DataInvariants)
          => DataInvariants']_vars

(***************************************************************************)
(* Reports on tasks that are not processing                                *)
(***************************************************************************)

\* The messages that the scheduler sends to workers while it handles
\* task-finished of worker w for key k.
FinishedSends(w, k) ==
    handle_task_finished([Cur(<<"w1", "w2">>) EXCEPT !.assigned = @ \ {<<k, w>>}],
                         k, w, 1, 1).sent

\* C28: a task-finished report for a task that is not processing, or for a
\* key that the scheduler does not know, changes no task, worker or client
\* state and does not raise; for a task that the scheduler knows it sends
\* release-task to the reporting worker exactly when the worker is not in
\* who_has of the task, and for an unknown key it sends nothing.
C28_LateReportChangesNothing ==
    [][\A w \in Workers, k \in Keys :
          (TaskFinished(w, k, 1, 1) /\ tasks[k].state # "processing")
          => /\ ~last'.exc
             /\ tasks' = tasks
             /\ workers' = workers
             /\ clients' = clients
             /\ FinishedSends(w, k) \subseteq {<<w, "release-task", k>>}
             /\ (<<w, "release-task", k>> \in FinishedSends(w, k))
                    <=> (tasks[k].state # "forgotten" /\ w \notin tasks[k].who_has)]_vars

\* A task-finished report was handled without a change of state, and no
\* task is processing: the report was about a task in another state; a task
\* is in memory.
C28_Witness ==
    /\ last.op = "task-finished"
    /\ ~last.exc
    /\ last.changes = {}
    /\ \A k \in Keys : tasks[k].state # "processing"
    /\ \E k \in Keys : tasks[k].state = "memory"

(***************************************************************************)
(* Reports of missing data                                                 *)
(***************************************************************************)

\* C29: a missing-data message that names the errant worker e for key k
\* removes e from who_has of k and no other holder of any key, and while k
\* keeps a holder no task changes state; and a release message, the other
\* report of missing data, takes at most one holder from a key, and a key
\* that keeps a holder keeps its state.
C29_OnlyErrantRemoved ==
    /\ [][\A w \in Workers, e \in Workers, k \in Keys :
             (MissingData(w, k, e) /\ e \in Registered)
             => /\ \A k2 \in Keys :
                       tasks'[k2].who_has = IF k2 = k THEN tasks[k].who_has \ {e}
                                            ELSE tasks[k2].who_has
                /\ tasks[k].who_has \ {e} # {}
                       => \A k2 \in Keys : tasks'[k2].state = tasks[k2].state]_vars
    /\ [][\A w \in Workers, k \in Keys, cause \in Keys \cup {None} :
             ReleaseData(w, k, cause)
             => \A k2 \in Keys :
                    /\ Cardinality(tasks[k2].who_has \ tasks'[k2].who_has) <= 1
                    /\ (tasks[k2].who_has # {} /\ tasks'[k2].who_has # {})
                           => tasks'[k2].state = tasks[k2].state]_vars

(***************************************************************************)
(* Cancel of a key that another client wants                               *)
(***************************************************************************)

\* The messages that the scheduler sends while it handles the cancel of key
\* k by client c1, without force.
CancelSends(k) == stimulus_cancel(Cur(<<"w1", "w2">>), {k}, "c1", FALSE).sent

\* C30: when client c1 cancels key k without force while client c2 wants k
\* too, k keeps its state, c2 still wants k, no dependent of k changes, and
\* no cancelled-key message for k goes to c2.
C30_CancelAffectsOneClient ==
    [][\A k \in Keys :
          (Cancel("c1", {k}, FALSE) /\ {"c1", "c2"} \subseteq tasks[k].who_wants)
          => /\ tasks'[k].state = tasks[k].state
             /\ "c2" \in tasks'[k].who_wants
             /\ \A d \in tasks[k].dependents : tasks'[d] = tasks[d]
             /\ <<"c2", "cancelled-key", k>> \notin CancelSends(k)]_vars

(***************************************************************************)
(* Restrictions                                                            *)
(***************************************************************************)

\* The registered workers that satisfy every restriction of task k.
Satisfying(k) ==
    {w \in Registered :
        /\ tasks[k].worker_restrictions # {} => w \in tasks[k].worker_restrictions
        /\ tasks[k].host_restrictions # {} => HostOf(w) \in tasks[k].host_restrictions
        /\ tasks[k].resource_restrictions # 0
               => workers[w].resources >= tasks[k].resource_restrictions}

Unrestricted(k) ==
    /\ tasks[k].worker_restrictions = {}
    /\ tasks[k].host_restrictions = {}
    /\ tasks[k].resource_restrictions = 0

\* C31: valid_workers of a task is the set of the registered workers that
\* satisfy every restriction of the task (address, host and resource), and
\* for a task without restrictions it is True, every worker.
C31_ValidWorkersSatisfyAll ==
    \A k \in Keys :
        tasks[k].state # "forgotten" =>
            LET valid == valid_workers(Cur(<<"w1", "w2">>), tasks[k])
            IN /\ ~valid.exc
               /\ valid.all <=> Unrestricted(k)
               /\ ~valid.all => valid.set = Satisfying(k)

\* Strict restrictions on a task with a dependency: y depends on x and only y
\* is restricted.
StrictInputs ==
    {[NoOptions EXCEPT !.restrictions = TRUE, !.workers = {"w1"}],
     [NoOptions EXCEPT !.restrictions = TRUE, !.hosts = {"h2"}],
     [NoOptions EXCEPT !.resources = MaxResource],
     [NoOptions EXCEPT !.restrictions = TRUE, !.workers = {"w1"}, !.loose = TRUE]}

NextStrict ==
    \/ \E w \in Workers, q \in {-1, MaxResource} : Register(w, None, q)
    \/ \E w \in Workers : Unregister(w)
    \/ AddClient("c1")
    \/ \E o \in StrictInputs : UpdateGraph("c1", {"x", "y"}, {"y"}, o)
    \/ \E w \in Workers, k \in Keys : TaskFinished(w, k, 1, 1)

SpecStrict == Init /\ [][NextStrict]_vars

\* valid_workers of task k in the current state.
ValidNow(k) == valid_workers(Cur(<<"w1", "w2">>), tasks[k])

\* Task k has been given to a worker in this step.
Chosen(k) ==
    /\ tasks'[k].state = "processing" /\ tasks'[k].processing_on # None
    /\ tasks[k].state # "processing" \/ tasks[k].processing_on # tasks'[k].processing_on

\* Task k runs on the same worker before and after this step.
Running(k) ==
    /\ tasks[k].state = "processing" /\ tasks'[k].state = "processing"
    /\ tasks[k].processing_on = tasks'[k].processing_on

\* Task k is ready to run: it is waiting for nothing and not yet in memory.
Ready(k) ==
    /\ tasks[k].state \in {"waiting", "no-worker", "processing"}
    /\ tasks[k].waiting_on = {}

\* Scheduler.decide_worker for task k in the current state.
Decision(k) == Scheduler_decide_worker(Cur(<<"w1", "w2">>), k)

\* The decision for a task that is ready and has no worker yet.
StrictDecision ==
    \A k \in Keys :
        (Ready(k) /\ tasks[k].state # "processing" /\ ~tasks[k].loose_restrictions) =>
            /\ (Decision(k).worker # None /\ ~ValidNow(k).all) =>
                   Decision(k).worker \in ValidNow(k).set
            /\ (~ValidNow(k).all /\ ValidNow(k).set = {}) =>
                   /\ ~Decision(k).s.exc
                   /\ Decision(k).worker = None
                   /\ Decision(k).s.tasks[k].state = "no-worker"

\* The outcome of a step for the tasks with strict restrictions; the second
\* part looks at the handlers that ran to their end.
StrictStep ==
    \A k \in Keys :
        /\ (Chosen(k) /\ ~tasks'[k].loose_restrictions) =>
               (ValidNow(k)'.all \/ tasks'[k].processing_on \in ValidNow(k)'.set)
        /\ (Ready(k)' /\ ~Running(k) /\ ~tasks'[k].loose_restrictions /\ ~last'.exc
             /\ ~ValidNow(k)'.all /\ ValidNow(k)'.set = {}) =>
               tasks'[k].state = "no-worker"

\* C32: the worker chosen for a task with strict restrictions is one of its
\* valid workers; when the task has no valid worker, no worker is chosen and
\* the task ends in no-worker, and no error is raised.
C32_StrictChoiceIsValid == []StrictDecision /\ [][StrictStep]_vars

\* A task with a strict restriction that no registered worker satisfies is in
\* no-worker while its dependency is in memory on a registered worker.
C32_Witness ==
    \E k \in Keys :
        /\ tasks[k].state = "no-worker" /\ ~tasks[k].loose_restrictions
        /\ ~ValidNow(k).all /\ ValidNow(k).set = {}
        /\ \E d \in tasks[k].dependencies : tasks[d].who_has \cap Registered # {}

\* The recommendation of the present AdaptiveCore, whose _adapt_once awaits
\* target(), when target() returns n.
Recommended(n) == recommendations(adaptive, safe_target(adaptive, n))

NoCounts == [w \in AWorkers |-> 0]

AdaptiveCluster(plan, requested, observed, minimum, wait_count) ==
    /\ adaptive.state = "none"
    /\ Adaptive([adaptive_init(minimum, Infinity, wait_count, 1, 0, {})
                    EXCEPT !.plan = plan, !.requested = requested,
                           !.observed = observed])

\* The worker tokens of such a cluster.
ClusterWorkers == {"a1", "a2", "a3"}

NextCandidates ==
    \/ \E plan, requested, observed \in SUBSET ClusterWorkers, minimum \in 0..1 :
           AdaptiveCluster(plan, requested, observed, minimum, 1)
    \/ AdaptiveStart
    \/ AdaptiveTick
    \/ \E n \in 0..MaxTarget : AdaptTargeted(n, TRUE)
    \/ AdaptScaled(TRUE)

SpecCandidates == Init /\ [][NextCandidates]_vars

\* The close candidates of the call recommendations(target) that the present
\* AdaptiveCore makes when target() returns n.
Candidates(n) ==
    LET k == Len(adaptive.ticks)
    IN recommendations([adaptive EXCEPT !.ticks[k].cand = {}],
                       safe_target(adaptive, n)).s.ticks[k].cand

\* C34: in a tick with target < |plan| there are at most |plan| - target close
\* candidates, they are taken from requested \ observed first and contain
\* observed workers only when requested \ observed has fewer than
\* |plan| - target members, and closing them leaves at least minimum workers
\* in the plan.
C34_CandidatesWithinExcess ==
    \A n \in 0..MaxTarget :
        LET target == safe_target(adaptive, n)
            excess == Cardinality(adaptive.plan) - target
            not_yet_arrived == adaptive.requested \ adaptive.observed
        IN (adaptive.pc = "target" /\ excess > 0) =>
               /\ Cardinality(Candidates(n)) <= excess
               /\ IF Cardinality(not_yet_arrived) >= excess
                  THEN Candidates(n) \subseteq not_yet_arrived
                  ELSE not_yet_arrived \subseteq Candidates(n)
               /\ Candidates(n) \cap adaptive.observed # {} =>
                      Cardinality(not_yet_arrived) < excess
               /\ Cardinality(adaptive.plan \ Candidates(n)) >= adaptive.minimum

\* who_has of every task, and has_what and nbytes of every registered worker.
Holdings ==
    [who_has |-> [k \in Keys |-> tasks[k].who_has],
     has_what |-> [w \in Registered |-> workers[w].has_what],
     nbytes |-> [w \in Registered |-> workers[w].nbytes]]

\* C35: rebalance changes who_has, has_what and the workers' nbytes only after
\* every recipient has confirmed its gather: the call up to the gathers
\* changes none of them, and when the answer of a recipient is not OK
\* rebalance returns missing-data, asks no sender to delete, and leaves them
\* as they are.
C35_RefusedGatherChangesNothing ==
    /\ [][\A K \in SUBSET Keys, ws \in {{}, Workers} :
             Rebalance(K, ws) => Holdings' = Holdings]_vars
    /\ [][RebalanceRefused =>
             /\ Holdings' = Holdings /\ tasks' = tasks
             /\ pending' = NoCall /\ ~last'.exc
             /\ last'.op = "rebalance-missing-data"]_vars

\* rebalance has returned missing-data while a second worker, the recipient,
\* is registered and holds nothing.
C35_Witness ==
    /\ last.op = "rebalance-missing-data" /\ pending = NoCall
    /\ \E k \in Keys, w \in Registered :
           /\ tasks[k].state = "memory" /\ w \notin tasks[k].who_has
           /\ workers[w].has_what = {} /\ workers[w].nbytes = 0

\* Task k is processing on worker w.
ProcessingAt(k, w) ==
    /\ tasks[k].state = "processing" /\ tasks[k].processing_on = w
    /\ w \in DOMAIN workers /\ k \in DOMAIN workers[w].processing

\* A long-running report for a processing task sets its entry to 0 and takes
\* what the entry was from the occupancy of the worker and of the cluster.
LongRunningZeroes ==
    \A w \in Workers, k \in Keys, d \in DurationValues :
        (LongRunning(w, k, d) /\ \E ww \in Workers : ProcessingAt(k, ww)) =>
            \E ww \in Workers :
                /\ ProcessingAt(k, ww) /\ ProcessingAt(k, ww)'
                /\ workers'[ww].processing[k] = 0
                /\ workers'[ww].occupancy =
                       workers[ww].occupancy - workers[ww].processing[k]
                /\ total_occupancy' = total_occupancy - workers[ww].processing[k]

\* An entry of 0 stays 0 while the task is processing on the worker.
ZeroStays ==
    \A w \in Workers, k \in Keys :
        (ProcessingAt(k, w) /\ ProcessingAt(k, w)' /\ workers[w].processing[k] = 0) =>
            workers'[w].processing[k] = 0

\* A long-running report for a task that is not processing changes nothing.
LongRunningIgnored ==
    \A w \in Workers, k \in Keys, d \in DurationValues :
        (LongRunning(w, k, d) /\ tasks[k].processing_on = None) =>
            /\ tasks' = tasks /\ workers' = workers
            /\ task_duration' = task_duration /\ total_occupancy' = total_occupancy
            /\ ~last'.exc

\* C36: after a long-running report for a processing task its entry in the
\* worker's processing map is 0 and adds nothing to the occupancy; it stays 0
\* until the task leaves processing, also when the occupancy is re-evaluated;
\* a long-running report for a task that is not processing changes nothing.
C36_LongRunningStaysZero ==
    [][LongRunningZeroes /\ ZeroStays /\ LongRunningIgnored]_vars

\* replicate of data scattered to one of two workers, round after round.
NextRounds ==
    \/ \E w \in Workers : Register(w, None, -1)
    \/ AddClient("c1")
    \/ \E k \in Keys : UpdateData("c1", k, <<"w1">>, 1)
    \/ \E K \in SUBSET Keys \ {{}} : Replicate(K, 2)
    \/ \E ok \in SUBSET Workers : ReplicateRound(ok)
    \/ ReplicateFailed

\* The gathers that replicate awaits come back: each worker answers (OK or
\* not) or the call fails.
GathersReturn ==
    WF_vars((\E ok \in SUBSET Workers : ReplicateRound(ok)) \/ ReplicateFailed)

SpecRounds == Init /\ [][NextRounds]_vars /\ GathersReturn

\* C37: replicate terminates: a call that awaits its gathers returns after
\* finitely many rounds, whether the gathers succeed or a worker's gather
\* fails, once or every time.
C37_ReplicateTerminates ==
    (pending.op = "replicate-gather") ~> (pending.op = "none")

\* Data computed and scattered on workers that come and are retired; nothing
\* else is handled while retire_workers awaits its copies.
NextRetire ==
    \/ pending.op = "none" /\ \E w \in Workers : Register(w, None, -1)
    \/ pending.op = "none" /\ AddClient("c1")
    \/ pending.op = "none" /\ \E g \in GraphInputs : UpdateGraph("c1", g[1], g[2], NoOptions)
    \/ pending.op = "none" /\ \E w \in Workers, k \in Keys : TaskFinished(w, k, 1, 1)
    \/ pending.op = "none" /\ \E k \in Keys, w \in Workers : UpdateData("c1", k, <<w>>, 1)
    \/ \E W \in SUBSET Workers : RetireWorkers(W)
    \/ \E ok \in SUBSET Workers : RetireGathered(ok)
    \/ RetireFailed

SpecRetire == Init /\ [][NextRetire]_vars

\* What retire_workers(W) leaves of the data in memory when it returns.
Kept(W) ==
    IF Orphans(Cur(<<>>), W) # {} /\ Registered \ W = {} /\ pending.op = "none"
    THEN Registered' = Registered /\ tasks' = tasks
    ELSE \A k \in InMemory :
             /\ tasks'[k].state = "memory"
             /\ tasks'[k].who_has \cap (Registered' \ W) # {}

\* C38: retire_workers(W), with nothing else handled meanwhile, loses no data:
\* every task in memory before is in memory afterwards and held by a
\* registered worker outside W; when keys are held by W only and no other
\* worker is registered, no worker is removed.
C38_RetireKeepsData ==
    /\ [][\A W \in SUBSET Workers :
             (RetireWorkers(W) /\ pending' = NoCall) => Kept(W)]_vars
    /\ [][\A ok \in SUBSET Workers :
             (RetireGathered(ok) /\ pending' = NoCall) => Kept(pending.retiring)]_vars

\* Tasks that require a resource, on workers that register, send heartbeats
\* and set their resources; every task is submitted with the requirement and
\* keeps it.
NextUsed ==
    \/ \E w \in Workers, q \in {-1, MaxResource} : Register(w, None, q)
    \/ \E w \in Workers : SetResources(w, MaxResource)
    \/ \E w \in Workers : Unregister(w)
    \/ AddClient("c1")
    \/ \E g \in {{"x"}, {"x", "y"}} :
           UpdateGraph("c1", g, g, [NoOptions EXCEPT !.resources = MaxResource])
    \/ \E w \in Workers, k \in Keys : TaskFinished(w, k, 1, 1)

SpecUsed == Init /\ [][NextUsed]_vars

\* The quantity of the resource that the tasks processing on w require.
Required(w) ==
    SumOver([k \in Keys |-> tasks[k].resource_restrictions],
            {k \in Keys : ProcessingOn(k, w)})

\* C39: used_resources of every registered worker is the sum of the
\* quantities required by the tasks processing on it, hence never negative,
\* whatever assignments, completions, releases, heartbeats and re-registrations
\* with resources and set_resources calls came before.
C39_UsedResourcesIsSum ==
    \A w \in Registered :
        workers[w].used_resources = Required(w) /\ workers[w].used_resources >= 0


(***************************************************************************)
(* Delivery by a BatchedSend whose comm stays open                         *)
(***************************************************************************)

\* A BatchedSend that is started once, on a comm that stays open, and is
\* neither closed nor aborted: every write succeeds.  send() is called
\* with no message or up to three, before the start, while the background task waits, while it writes and
\* while the interval runs.
NextDelivery ==
    \/ batched.starts = 0 /\ BatchedStart
    \/ \E n \in 0..3 : BatchedSendMsgs(n)
    \/ BackgroundStarts(1)
    \/ \E woken \in BOOLEAN : BackgroundWakes(1, woken)
    \/ BackgroundWritten(1, TRUE)
    \/ DeadlinePasses

\* The event loop runs the background task when it is ready (created, or its
\* wait ended by the waker or by the timeout), a write on an open comm
\* ends, and time reaches next_deadline.
BackgroundRuns ==
    /\ WF_vars(BackgroundStarts(1))
    /\ WF_vars(\E woken \in BOOLEAN : BackgroundWakes(1, woken))
    /\ WF_vars(BackgroundWritten(1, TRUE))
    /\ WF_vars(DeadlinePasses)

SpecDelivery == Init /\ [][NextDelivery]_vars /\ BackgroundRuns

\* send() got message m.
Sent(m) == m <= batched.message_count

\* Message m is in a batch whose write to the comm has ended.
Delivered(m) ==
    \E i \in 1..Len(batched.writes) :
        /\ batched.writes[i].status = "written"
        /\ \E j \in 1..Len(batched.writes[i].batch) : batched.writes[i].batch[j] = m

\* C40: on a started BatchedSend whose comm stays open and that is neither
\* closed nor aborted, every message that send() got is eventually written
\* to the comm, whenever send() was called: with the background task idle,
\* during a write, or before next_deadline has passed.
C40_EverySentMessageIsWritten ==
    \A m \in 1..(3 * MaxSends) : (batched.starts > 0 /\ Sent(m)) ~> Delivered(m)

\* Two batches were written, the second with messages that send() got after
\* the first write began, and no message is left.
C40_Witness ==
    /\ Len(batched.writes) = 2
    /\ batched.message_count >= 2
    /\ \A m \in 1..batched.message_count : Delivered(m)

====
